---------------------------- MODULE Spec2Model ----------------------------
(***************************************************************************)
(* Model of the healthcare data explorer's SQL safety layer:               *)
(*   utils/security.py    SQLValidator (validate and the identifier        *)
(*                        helpers)                                         *)
(*   tools/sql_executor.py SQLExecutorTool (validate, add LIMIT, run,      *)
(*                        record history)                                  *)
(*   agent/orchestrator.py HealthcareDataAgent (tool dispatch, approve_sql,*)
(*                        reset_conversation)                              *)
(*                                                                         *)
(* SQL text is a TLA+ string; the regular expressions of the validator are *)
(* data (sequences of pattern elements) run by a small matcher, so every   *)
(* check works on the characters of the input as Python's re does.         *)
(***************************************************************************)
EXTENDS Integers, Sequences, FiniteSets, TLC

VARIABLES
    max_query_length,    \* SQLValidator.max_query_length
    max_rows,            \* SQLExecutorTool.max_rows
    query_history,       \* SQLExecutorTool.query_history
    db_statements,       \* statements DatabaseConnection.execute_query received
    last_query_results,  \* HealthcareDataAgent.last_query_results
    pending_sql,         \* HealthcareDataAgent.pending_sql
    op,                  \* the operation the last step ran ("pending": none yet)
    arg,                 \* the SQL string handed to that operation
    ret,                 \* what the operation returned
    calls,               \* the collaborator calls the operation made, in order
    validated,           \* history: what validate returned first for each string
    threads,             \* the validate calls in progress on one SQLValidator
    data_dictionary,     \* the module-level _data_dictionary of data_dictionary.py
    cache_file,          \* what data_dictionary_cache.json holds
    created,             \* DataDictionary objects constructed so far
    messages,            \* HealthcareDataAgent.messages
    chat,                \* where a running chat() call stands, and its locals
    engine,              \* DatabaseConnection._engine
    engines_created,     \* create_engine calls that returned an engine
    connections,         \* the connections that are open
    db_call              \* where a running DatabaseConnection.execute_query stands

dictVars == <<data_dictionary, cache_file, created>>

chatVars == <<messages, chat>>

connVars == <<engine, engines_created, connections, db_call>>

vars == <<max_query_length, max_rows, query_history, db_statements,
          last_query_results, pending_sql, op, arg, ret, calls, validated,
          threads,
          dictVars, chatVars, connVars>>

-----------------------------------------------------------------------------
(* Characters *)

At(s, i) == SubSeq(s, i, i)

\* the character at position i, "" past the end
CharAt(s, i) == IF i <= Len(s) THEN SubSeq(s, i, i) ELSE ""

LowerLetters == "abcdefghijklmnopqrstuvwxyz"
UpperLetters == "ABCDEFGHIJKLMNOPQRSTUVWXYZ"
Digits == "0123456789"

CharSet(s) == { At(s, i) : i \in 1..Len(s) }

\* str.isspace for the characters of the model's inputs
WhiteSpace == {" ", "\t", "\n", "\r"}
IsSpace(c) == c \in WhiteSpace

\* \w of Python's re
WordChars == CharSet(LowerLetters) \cup CharSet(UpperLetters) \cup CharSet(Digits) \cup {"_"}
IsWordChar(c) == c \in WordChars

UpperTable ==
    [c \in CharSet(LowerLetters) |->
        At(UpperLetters, CHOOSE i \in 1..Len(LowerLetters) : At(LowerLetters, i) = c)]

UpperChar(c) == IF c \in DOMAIN UpperTable THEN UpperTable[c] ELSE c

\* str.upper(); also the case folding re.IGNORECASE applies to both sides
\* (computed eight characters at a time)
RECURSIVE Upper(_)
Upper(s) ==
    IF s = "" THEN ""
    ELSE UpperChar(CharAt(s, 1)) \o UpperChar(CharAt(s, 2)) \o UpperChar(CharAt(s, 3))
             \o UpperChar(CharAt(s, 4)) \o UpperChar(CharAt(s, 5)) \o UpperChar(CharAt(s, 6))
             \o UpperChar(CharAt(s, 7)) \o UpperChar(CharAt(s, 8))
             \o Upper(SubSeq(s, 9, Len(s)))

LowerTable ==
    [c \in CharSet(UpperLetters) |->
        At(LowerLetters, CHOOSE i \in 1..Len(UpperLetters) : At(UpperLetters, i) = c)]

LowerChar(c) == IF c \in DOMAIN LowerTable THEN LowerTable[c] ELSE c

\* str.lower()
RECURSIVE Lower(_)
Lower(s) ==
    IF s = "" THEN ""
    ELSE LowerChar(CharAt(s, 1)) \o LowerChar(CharAt(s, 2)) \o LowerChar(CharAt(s, 3))
             \o LowerChar(CharAt(s, 4)) \o LowerChar(CharAt(s, 5)) \o LowerChar(CharAt(s, 6))
             \o LowerChar(CharAt(s, 7)) \o LowerChar(CharAt(s, 8))
             \o Lower(SubSeq(s, 9, Len(s)))

\* str.swapcase()
SwapChar(c) == IF c \in DOMAIN UpperTable THEN UpperTable[c] ELSE LowerChar(c)

RECURSIVE SwapCase(_)
SwapCase(s) ==
    IF s = "" THEN ""
    ELSE SwapChar(CharAt(s, 1)) \o SwapChar(CharAt(s, 2)) \o SwapChar(CharAt(s, 3))
             \o SwapChar(CharAt(s, 4)) \o SwapChar(CharAt(s, 5)) \o SwapChar(CharAt(s, 6))
             \o SwapChar(CharAt(s, 7)) \o SwapChar(CharAt(s, 8))
             \o SwapCase(SubSeq(s, 9, Len(s)))

-----------------------------------------------------------------------------
(* str.strip, str.rstrip, str.endswith, str.count *)

RECURSIVE lstrip(_)
lstrip(s) == IF s # "" /\ IsSpace(At(s, 1)) THEN lstrip(Tail(s)) ELSE s

RECURSIVE rstrip(_)
rstrip(s) ==
    IF s # "" /\ IsSpace(At(s, Len(s))) THEN rstrip(SubSeq(s, 1, Len(s) - 1)) ELSE s

strip(s) == rstrip(lstrip(s))

endswith(s, suffix) ==
    /\ Len(suffix) <= Len(s)
    /\ SubSeq(s, Len(s) - Len(suffix) + 1, Len(s)) = suffix

count(s, c) == Cardinality({ i \in 1..Len(s) : At(s, i) = c })

\* sub in s
Contains(s, sub) ==
    \E i \in 1..(Len(s) - Len(sub) + 1) : SubSeq(s, i, i + Len(sub) - 1) = sub

\* s.startswith(prefix)
startswith(s, prefix) ==
    Len(prefix) <= Len(s) /\ SubSeq(s, 1, Len(prefix)) = prefix

-----------------------------------------------------------------------------
(* Regular expressions: a pattern is a sequence of elements *)

Lit(s)    == [t |-> "lit", s |-> s]      \* literal text
Alt(ss)   == [t |-> "alt", s |-> ss]     \* (a|b|...) of literal texts
WsStar    == [t |-> "ws*", s |-> ""]     \* \s*
WsPlus    == [t |-> "ws+", s |-> ""]     \* \s+
WordB     == [t |-> "\\b", s |-> ""]     \* \b
EndOfStr  == [t |-> "$",   s |-> ""]     \* $
LineStart == [t |-> "^",   s |-> ""]     \* ^

\* \b between positions i-1 and i
AtWordBoundary(s, i) ==
    LET before == i > 1 /\ IsWordChar(At(s, i - 1))
        after  == i <= Len(s) /\ IsWordChar(At(s, i))
    IN  before # after

\* $ without re.MULTILINE: the end, or just before a final newline
AtEnd(s, i) == i = Len(s) + 1 \/ (i = Len(s) /\ At(s, i) = "\n")

\* the positions \s* or \s+ can stop at when it starts at i
WsStops(s, i, least) ==
    { j \in (i + least)..(Len(s) + 1) : \A m \in i..(j - 1) : IsSpace(At(s, m)) }

\* the positions where a match of pat[k..] that starts at i can end
RECURSIVE MatchEnds(_, _, _, _)
MatchEnds(pat, k, s, i) ==
    IF k > Len(pat) THEN {i}
    ELSE LET el == pat[k] IN
         CASE el.t = "\\b" ->
                 IF AtWordBoundary(s, i) THEN MatchEnds(pat, k + 1, s, i) ELSE {}
           [] el.t = "lit" ->
                 IF /\ i + Len(el.s) - 1 <= Len(s)
                    /\ SubSeq(s, i, i + Len(el.s) - 1) = el.s
                 THEN MatchEnds(pat, k + 1, s, i + Len(el.s))
                 ELSE {}
           [] el.t = "ws*" ->
                 UNION { MatchEnds(pat, k + 1, s, j) : j \in WsStops(s, i, 0) }
           [] el.t = "ws+" ->
                 UNION { MatchEnds(pat, k + 1, s, j) : j \in WsStops(s, i, 1) }
           [] el.t = "alt" ->
                 UNION { MatchEnds(<<Lit(el.s[a])>> \o SubSeq(pat, k + 1, Len(pat)), 1, s, i) :
                             a \in 1..Len(el.s) }
           [] el.t = "$" ->
                 IF AtEnd(s, i) THEN MatchEnds(pat, k + 1, s, i) ELSE {}
           [] el.t = "^" ->
                 IF i = 1 THEN MatchEnds(pat, k + 1, s, i) ELSE {}

\* re.compile(pattern, re.IGNORECASE): literals are case-folded
FoldPattern(pat) ==
    [k \in 1..Len(pat) |->
        [t |-> pat[k].t,
         s |-> IF pat[k].t = "alt"
               THEN [a \in 1..Len(pat[k].s) |-> Upper(pat[k].s[a])]
               ELSE Upper(pat[k].s)]]

\* compiled.match(s): a match that starts at the first character
re_match(pat, s) == MatchEnds(pat, 1, s, 1) # {}

\* the leftmost position where one of the alternatives matches, 0 when none does
SearchStart(alts, s) ==
    LET hits == { i \in 1..(Len(s) + 1) :
                    \E k \in 1..Len(alts) : MatchEnds(alts[k], 1, s, i) # {} }
    IN  IF hits = {} THEN 0 ELSE CHOOSE i \in hits : \A j \in hits : i <= j

\* compiled.search(s) is not None
re_search(pat, s) == SearchStart(<<pat>>, s) # 0

\* compiled.search(s) of the alternation alts[1]|alts[2]|...: the span of the match
\* (the first alternative that matches at the leftmost position; the longest
\* end, which is the only one for the patterns of this module)
re_search_span(alts, s) ==
    LET i    == SearchStart(alts, s)
        k    == CHOOSE k \in 1..Len(alts) :
                    /\ MatchEnds(alts[k], 1, s, i) # {}
                    /\ \A j \in 1..(k - 1) : MatchEnds(alts[j], 1, s, i) = {}
        ends == MatchEnds(alts[k], 1, s, i)
    IN  [start |-> i, end |-> CHOOSE e \in ends : \A f \in ends : f <= e]

-----------------------------------------------------------------------------
(* SQLValidator *)

\* a keyword written without its \b anchors
Word_NoBoundary(kw) == <<Lit(kw)>>

\* r"\bKEYWORD\b"
Word(kw) == <<WordB, Lit(kw), WordB>>

WRITE_KEYWORDS ==
    << Word("INSERT"), Word("UPDATE"), Word("DELETE"), Word("DROP"),
       Word("CREATE"), Word("ALTER"), Word("TRUNCATE"), Word("REPLACE"),
       Word("MERGE"), Word("GRANT"), Word("REVOKE"), Word("EXEC"),
       Word("EXECUTE"), Word("CALL") >>

\* the union pattern written with single blanks instead of \s+
UnionAllSelect_Blanks == <<Lit("UNION ALL SELECT")>>

\* r"UNION\s+ALL\s+SELECT"
UnionAllSelect == <<Lit("UNION"), WsPlus, Lit("ALL"), WsPlus, Lit("SELECT")>>

INJECTION_PATTERNS ==
    << <<Lit(";"), WsStar, Lit("--")>>,
       <<Lit(";"), WsStar, Lit("/*")>>,
       UnionAllSelect,
       <<Lit("'"), WsStar, Lit("OR"), WsPlus, Lit("'1'"), WsStar, Lit("="),
         WsStar, Lit("'1")>>,
       <<Lit("'"), WsStar, Lit("OR"), WsPlus, Lit("1"), WsStar, Lit("="),
         WsStar, Lit("1")>>,
       <<Lit("--"), WsStar, EndOfStr>>,
       <<Lit(";"), WsStar, Lit("DROP"), WordB>>,
       <<Lit("WAITFOR"), WsPlus, Lit("DELAY")>>,
       <<Lit("BENCHMARK"), WsStar, Lit("(")>>,
       <<Lit("SLEEP"), WsStar, Lit("(")>>,
       <<Lit("pg_sleep")>> >>

\* self._write_pattern: the alternatives of "|".join(WRITE_KEYWORDS), IGNORECASE
write_pattern == [k \in 1..Len(WRITE_KEYWORDS) |-> FoldPattern(WRITE_KEYWORDS[k])]

\* self._injection_patterns
injection_patterns ==
    [k \in 1..Len(INJECTION_PATTERNS) |-> FoldPattern(INJECTION_PATTERNS[k])]

\* the anchor without WITH
anchor_pattern_SelectOnly == FoldPattern(<<LineStart, WsStar, Lit("SELECT"), WordB>>)

\* r"^\s*(SELECT|WITH)\b", re.IGNORECASE
anchor_pattern == FoldPattern(<<LineStart, WsStar, Alt(<<"SELECT", "WITH">>), WordB>>)

\* the emptiness test without the strip
IsEmptyQuery_NoStrip(sql) == sql = ""

\* not sql or not sql.strip()
IsEmptyQuery(sql) == sql = "" \/ strip(sql) = ""

\* the length test with >= for >
ExceedsLength_OffByOne(sql, limit) == Len(sql) >= limit

\* len(sql) > self.max_query_length
ExceedsLength(sql, limit) == Len(sql) > limit

\* The matchers below take the text case-folded (folded = Upper(normalized)):
\* the patterns are compiled with re.IGNORECASE, and validate folds its input
\* once for all of them.

\* re.match(r"^\s*(SELECT|WITH)\b", normalized, re.IGNORECASE)
StartsWithSelectOrWith(folded) == re_match(anchor_pattern, folded)

\* self._write_pattern.search(normalized) is a match
HasWriteKeyword(folded) == SearchStart(write_pattern, folded) # 0

\* match.group() of self._write_pattern.search(normalized): the matched text as
\* the input spells it
WriteMatchGroup(normalized, folded) ==
    LET m == re_search_span(write_pattern, folded)
    IN  SubSeq(normalized, m.start, m.end - 1)

\* any(pattern.search(normalized) for pattern in self._injection_patterns)
HasInjectionPattern(folded) ==
    \E k \in 1..Len(injection_patterns) : re_search(injection_patterns[k], folded)

\* the statement count with 2 for 1
MultipleStatements_OffByOne(normalized) == count(normalized, ";") > 2

\* semicolon_count > 1
MultipleStatements(normalized) == count(normalized, ";") > 1

\* the placement test with "in" for endswith
MisplacedSemicolon_Anywhere(normalized) ==
    count(normalized, ";") = 1 /\ ~Contains(normalized, ";")

\* semicolon_count == 1 and not normalized.rstrip().endswith(";")
MisplacedSemicolon(normalized) ==
    count(normalized, ";") = 1 /\ ~endswith(rstrip(normalized), ";")

EmptyReason == "Empty query"
LengthReason(limit) ==
    "Query exceeds maximum length of " \o ToString(limit) \o " characters"
AnchorReason == "Query must start with SELECT or WITH"
WriteReason(kw) == "Write operation detected: " \o kw
\* the message naming the pattern that matched
InjectionReason_NamesPattern == "SQL injection pattern detected: UNION ALL SELECT"

InjectionReason == "Potential SQL injection pattern detected"
MultipleReason == "Multiple SQL statements not allowed"
SemicolonReason == "Semicolon only allowed at end of query"

\* validate with "return True" for "return False" where the anchor fails
validate_with_AnchorTrue(sql, limit) ==
    IF IsEmptyQuery(sql) THEN <<FALSE, EmptyReason>>
    ELSE IF ExceedsLength(sql, limit) THEN <<FALSE, LengthReason(limit)>>
    ELSE LET normalized == strip(sql)
             folded == Upper(normalized)
         IN  IF ~StartsWithSelectOrWith(folded) THEN <<TRUE, AnchorReason>>
             ELSE IF HasWriteKeyword(folded)
                  THEN <<FALSE, WriteReason(WriteMatchGroup(normalized, folded))>>
             ELSE IF HasInjectionPattern(folded) THEN <<FALSE, InjectionReason>>
             ELSE IF MultipleStatements(normalized) THEN <<FALSE, MultipleReason>>
             ELSE IF MisplacedSemicolon(normalized) THEN <<FALSE, SemicolonReason>>
             ELSE <<TRUE, "">>

\* validate with the write-keyword scan moved in front of the anchor
validate_with_WriteFirst(sql, limit) ==
    IF IsEmptyQuery(sql) THEN <<FALSE, EmptyReason>>
    ELSE IF ExceedsLength(sql, limit) THEN <<FALSE, LengthReason(limit)>>
    ELSE LET normalized == strip(sql)
             folded == Upper(normalized)
         IN  IF HasWriteKeyword(folded)
             THEN <<FALSE, WriteReason(WriteMatchGroup(normalized, folded))>>
             ELSE IF ~StartsWithSelectOrWith(folded) THEN <<FALSE, AnchorReason>>
             ELSE IF HasInjectionPattern(folded) THEN <<FALSE, InjectionReason>>
             ELSE IF MultipleStatements(normalized) THEN <<FALSE, MultipleReason>>
             ELSE IF MisplacedSemicolon(normalized) THEN <<FALSE, SemicolonReason>>
             ELSE <<TRUE, "">>

\* an exception that leaves a call instead of a return value
Raised(exc) == <<exc>>

\* validate reading match.group() without the "if": a query with no write
\* keyword has no match, and None.group() raises
validate_with_UnguardedGroup(sql, limit) ==
    IF IsEmptyQuery(sql) THEN <<FALSE, EmptyReason>>
    ELSE IF ExceedsLength(sql, limit) THEN <<FALSE, LengthReason(limit)>>
    ELSE LET normalized == strip(sql)
             folded == Upper(normalized)
         IN  IF ~StartsWithSelectOrWith(folded) THEN <<FALSE, AnchorReason>>
             ELSE IF ~HasWriteKeyword(folded) THEN Raised("AttributeError")
             ELSE <<FALSE, WriteReason(WriteMatchGroup(normalized, folded))>>

\* validate with its patterns compiled without re.IGNORECASE
validate_with_CaseSensitive(sql, limit) ==
    IF IsEmptyQuery(sql) THEN <<FALSE, EmptyReason>>
    ELSE IF ExceedsLength(sql, limit) THEN <<FALSE, LengthReason(limit)>>
    ELSE LET normalized == strip(sql)
         IN  IF ~StartsWithSelectOrWith(normalized) THEN <<FALSE, AnchorReason>>
             ELSE IF HasWriteKeyword(normalized)
                  THEN <<FALSE, WriteReason(WriteMatchGroup(normalized, normalized))>>
             ELSE IF HasInjectionPattern(normalized) THEN <<FALSE, InjectionReason>>
             ELSE IF MultipleStatements(normalized) THEN <<FALSE, MultipleReason>>
             ELSE IF MisplacedSemicolon(normalized) THEN <<FALSE, SemicolonReason>>
             ELSE <<TRUE, "">>

\* validate with a message beside the final True
validate_with_ValidMessage(sql, limit) ==
    IF IsEmptyQuery(sql) THEN <<FALSE, EmptyReason>>
    ELSE IF ExceedsLength(sql, limit) THEN <<FALSE, LengthReason(limit)>>
    ELSE LET normalized == strip(sql)
             folded == Upper(normalized)
         IN  IF ~StartsWithSelectOrWith(folded) THEN <<FALSE, AnchorReason>>
             ELSE IF HasWriteKeyword(folded)
                  THEN <<FALSE, WriteReason(WriteMatchGroup(normalized, folded))>>
             ELSE IF HasInjectionPattern(folded) THEN <<FALSE, InjectionReason>>
             ELSE IF MultipleStatements(normalized) THEN <<FALSE, MultipleReason>>
             ELSE IF MisplacedSemicolon(normalized) THEN <<FALSE, SemicolonReason>>
             ELSE <<TRUE, "Query is valid">>

\* SQLValidator.validate of a validator whose max_query_length is limit: the pair
\* (is_valid, error_message)
validate_with(sql, limit) ==
    IF IsEmptyQuery(sql) THEN <<FALSE, EmptyReason>>
    ELSE IF ExceedsLength(sql, limit) THEN <<FALSE, LengthReason(limit)>>
    ELSE LET normalized == strip(sql)
             folded == Upper(normalized)
         IN  IF ~StartsWithSelectOrWith(folded) THEN <<FALSE, AnchorReason>>
             ELSE IF HasWriteKeyword(folded)
                  THEN <<FALSE, WriteReason(WriteMatchGroup(normalized, folded))>>
             ELSE IF HasInjectionPattern(folded) THEN <<FALSE, InjectionReason>>
             ELSE IF MultipleStatements(normalized) THEN <<FALSE, MultipleReason>>
             ELSE IF MisplacedSemicolon(normalized) THEN <<FALSE, SemicolonReason>>
             ELSE <<TRUE, "">>

\* [a-zA-Z_] and [a-zA-Z0-9_]
IdentStart == CharSet(LowerLetters) \cup CharSet(UpperLetters) \cup {"_"}
IdentChars == IdentStart \cup CharSet(Digits)

\* sanitize_identifier putting an underscore where it removes a character
RECURSIVE sanitize_identifier_Underscore(_)
sanitize_identifier_Underscore(identifier) ==
    IF identifier = "" THEN ""
    ELSE (IF At(identifier, 1) \in IdentChars THEN At(identifier, 1) ELSE "_")
             \o sanitize_identifier_Underscore(Tail(identifier))

\* SQLValidator.sanitize_identifier: re.sub(r"[^a-zA-Z0-9_]", "", identifier)
RECURSIVE sanitize_identifier(_)
sanitize_identifier(identifier) ==
    IF identifier = "" THEN ""
    ELSE (IF At(identifier, 1) \in IdentChars THEN At(identifier, 1) ELSE "")
             \o sanitize_identifier(Tail(identifier))

\* SQLValidator.is_safe_identifier:
\* bool(re.match(r"^[a-zA-Z_][a-zA-Z0-9_]*$", identifier))
is_safe_identifier(identifier) ==
    /\ identifier # ""
    /\ At(identifier, 1) \in IdentStart
    /\ \E e \in 2..(Len(identifier) + 1) :
           /\ \A i \in 2..(e - 1) : At(identifier, i) \in IdentChars
           /\ AtEnd(identifier, e)

-----------------------------------------------------------------------------
(* The SQL strings the model feeds the validator *)

\* fragments a query is put together from, joined without a separator
MaxFrags == 2

Leads == {"", " \n"}

\* leading words followed by up to MaxFrags fragments
Heads == {"SELECT", "with"}

\* leading words followed by at most one fragment: the write keywords and other
\* spellings
OtherHeads ==
    {"INSERT", "update", "Delete", "DROP", "create", "ALTER", "truncate",
     "Replace", "MERGE", "grant", "REVOKE", "exec", "Execute", "CALL",
     "", "EXPLAIN", "SELECTED", "SeLeCt", "WITH"}

Frags ==
    {" ", "\n\t \r\n\t \r\n", ";", " x", "_", " 'DELETE'", " updated_at",
     " create_date", " drop", " UNION SELECT 2", " union\tAll\n select 2",
     " --", " sleep (1)"}

\* one text for each of the other injection patterns, and a LIMIT clause
Signatures ==
    {" UNION ALL SELECT 2", ";--", "; /*", " ' OR '1'='1", " ' or 1 = 1",
     " 1 ;\ndrop", " WAITFOR DELAY 1", " benchmark (1)", " pg_sleep",
     " LIMIT 5"}

\* the concatenations of at most n fragments
RECURSIVE Bodies(_)
Bodies(n) ==
    IF n = 0 THEN {""}
    ELSE LET shorter == Bodies(n - 1)
         IN  shorter \cup { b \o f : b \in shorter, f \in Frags }

Inputs ==
    { l \o h \o b : l \in Leads, h \in Heads, b \in Bodies(MaxFrags) }
    \cup { l \o h \o f : l \in Leads, h \in Heads, f \in Signatures }
    \cup { l \o h \o f : l \in Leads, h \in OtherHeads, f \in Frags \cup {""} }

\* the values the model constructs SQLValidator(max_query_length=...) with
MaxQueryLengths == {8, 40}

\* SQLValidator(): the default max_query_length
DefaultMaxQueryLength == 10000

\* whole queries, given to a validator built with the default length
UnionAllScenario ==
    "SELECT * FROM users WHERE id = 1 UNION ALL SELECT password FROM admin"
Scenarios ==
    {UnionAllScenario,
     "SELECT country, SUM(deaths) FROM disease_burden WHERE year = 2023 GROUP BY country ORDER BY SUM(deaths) DESC LIMIT 10",
     "WITH recent AS (SELECT * FROM t WHERE year > 2020) SELECT * FROM recent",
     "SELECT * FROM users; --",
     "SELECT * FROM users WHERE id = 1 OR '1'='1'"}

\* the values the model constructs SQLExecutorTool(max_rows=...) with
MaxRowsValues == {3}

-----------------------------------------------------------------------------
(* SQLExecutorTool and the agent's entry points to it *)

\* Python's None, and a value that is not None
None == <<>>
Some(v) == <<v>>

\* no chat() call is running
IdleChat == [pc |-> "idle", tool_calls |-> <<>>, stop_reason |-> "",
             tool_results |-> <<>>]

\* an exception that leaves the function instead of a return value
Propagated(exc) == [exception |-> exc]

\* what data_dictionary_cache.json holds: nothing (no file), text that
\* DataDictionary.load cannot read, or a saved dictionary
AbsentFile == [content |-> "absent", generated_at |-> 0]
InvalidFile == [content |-> "invalid", generated_at |-> 0]
SavedFile(generated_at) == [content |-> "saved", generated_at |-> generated_at]

\* executions the model lets one executor run
MaxHistory == 2

\* the SQL strings the agent hands to the executor
ExecInputs ==
    {"SELECT x", "select x ;\n", "with t SELECT x LIMIT 5",
     "  \n", "DELETE FROM t", "SELECT 'drop'", "SELECT x; --", "SELECT x; y",
     "SELECT x;;", "SELECT x, updated_at, create_date FROM some_table",
     "SELECT limits FROM t"}

\* what DatabaseConnection.execute_query does with a statement: it returns the
\* rows it fetched or raises
Row(n) == [id |-> n]

\* DatabaseConnection.DEFAULT_ROW_LIMIT, the row_limit of DatabaseConnection();
\* 10000 in the source, scaled with max_rows to the model's result sets
DEFAULT_ROW_LIMIT == 3
row_limit == DEFAULT_ROW_LIMIT

\* the most rows a statement's result set holds in the model
MaxResultRows == 4

\* the result sets conn.execute(text(sql)) can produce
ResultSets == { [i \in 1..n |-> Row(i)] : n \in 0..MaxResultRows }

\* result.fetchall(), where the code calls fetchmany
fetchmany_All(rows, size) == rows

\* result.fetchmany(size): the first size rows, or all when there are fewer
fetchmany(rows, size) ==
    IF Len(rows) <= size THEN rows ELSE SubSeq(rows, 1, size)

DbOutcomes ==
    { [raised |-> FALSE, rows |-> fetchmany(r, row_limit), error |-> ""] :
          r \in ResultSets }
    \cup { [raised |-> TRUE, rows |-> <<>>, error |-> "OperationalError"] }

\* the SQL strings a caller hands to one validator, call after call
SessionInputs ==
    {"select x", "SELECT x;", "", "insert x", "SELECT 'Delete'",
     "select 1 union all select 2", "SELECT x; y", " WITH t select x \n"}

\* validate_with for the executor's and the callers' inputs, evaluated once
Verdicts ==
    [limit \in MaxQueryLengths |->
        [sql \in ExecInputs \cup SessionInputs |-> validate_with(sql, limit)]]

\* self.validator.validate(sql)
validate(sql) ==
    IF max_query_length \in MaxQueryLengths /\ sql \in ExecInputs \cup SessionInputs
    THEN Verdicts[max_query_length][sql]
    ELSE validate_with(sql, max_query_length)

\* SQLExecutorTool._ensure_limit
ensure_limit(sql) ==
    LET sql_upper == strip(Upper(sql))
    IN  IF Contains(sql_upper, "LIMIT") THEN sql
        ELSE IF endswith(rstrip(sql), ";")
             THEN SubSeq(rstrip(sql), 1, Len(rstrip(sql)) - 1)
                      \o " LIMIT " \o ToString(max_rows) \o ";"
             ELSE sql \o " LIMIT " \o ToString(max_rows)

\* DataExporter.get_summary_stats, its counts
get_summary_stats(data) ==
    IF data = <<>> THEN [row_count |-> 0, column_count |-> 0]
    ELSE [row_count |-> Len(data), column_count |-> Cardinality(DOMAIN data[1])]

\* the try block with the history entry appended before the statement runs
RunStatement_AppendFirst(sql_with_limit, outcome) ==
    /\ db_statements' = Append(db_statements, sql_with_limit)
    /\ query_history' =
           Append(query_history,
                  [query |-> sql_with_limit, row_count |-> Len(outcome.rows)])
    /\ ret' = IF outcome.raised
              THEN [success |-> FALSE, error |-> outcome.error,
                    query |-> sql_with_limit]
              ELSE [success |-> TRUE, query |-> sql_with_limit,
                    row_count |-> Len(outcome.rows), data |-> outcome.rows]

\* the statement run without the "except Exception" handler
RunStatement_Propagates(sql_with_limit, outcome) ==
    /\ db_statements' = Append(db_statements, sql_with_limit)
    /\ IF outcome.raised
       THEN /\ ret' = Propagated(outcome.error)
            /\ UNCHANGED query_history
       ELSE /\ query_history' =
                   Append(query_history,
                          [query |-> sql_with_limit,
                           row_count |-> Len(outcome.rows)])
            /\ ret' = [success |-> TRUE, query |-> sql_with_limit,
                       row_count |-> Len(outcome.rows), data |-> outcome.rows]

\* the try block of SQLExecutorTool.execute_query: run the statement, record it
\* in the history and build the response, or report the exception
RunStatement(sql_with_limit, outcome) ==
    /\ db_statements' = Append(db_statements, sql_with_limit)
    /\ IF outcome.raised
       THEN /\ ret' = [success |-> FALSE, error |-> outcome.error,
                       query |-> sql_with_limit]
            /\ UNCHANGED query_history
       ELSE /\ query_history' =
                   Append(query_history,
                          [query |-> sql_with_limit,
                           row_count |-> Len(outcome.rows)])
            /\ ret' =
                   IF outcome.rows # <<>>
                   THEN [success |-> TRUE, query |-> sql_with_limit,
                         row_count |-> Len(outcome.rows),
                         data |-> outcome.rows,
                         columns |-> DOMAIN outcome.rows[1],
                         summary |-> get_summary_stats(outcome.rows)]
                   ELSE [success |-> TRUE, query |-> sql_with_limit,
                         row_count |-> 0, data |-> <<>>]

\* execute_query without the "if not is_valid" return
execute_query_NoGate(sql) ==
    /\ calls' = <<"validator.validate", "_ensure_limit", "db.execute_query">>
    /\ \E outcome \in DbOutcomes : RunStatement(ensure_limit(sql), outcome)

\* SQLExecutorTool.execute_query(sql); the wall-clock fields (execution_time,
\* timestamp) are left out
execute_query(sql) ==
    LET v == validate(sql)
        is_valid == v[1]
        error_message == v[2]
    IN  IF ~is_valid
        THEN /\ calls' = <<"validator.validate">>
             /\ ret' = [success |-> FALSE,
                        error |-> "Query validation failed: " \o error_message,
                        query |-> sql]
             /\ UNCHANGED <<query_history, db_statements>>
        ELSE /\ calls' = <<"validator.validate", "_ensure_limit", "db.execute_query">>
             /\ \E outcome \in DbOutcomes : RunStatement(ensure_limit(sql), outcome)

\* validate_query with result["error"] set whatever the verdict
validate_query_AlwaysError(sql) ==
    LET v == validate(sql)
    IN  [is_valid |-> v[1], query |-> sql, error |-> v[2]]

\* SQLExecutorTool.validate_query
validate_query(sql) ==
    LET v == validate(sql)
    IN  IF ~v[1] THEN [is_valid |-> FALSE, query |-> sql, error |-> v[2]]
        ELSE [is_valid |-> TRUE, query |-> sql]

\* self.last_query_results = result.get("data", []) without the test before it
RememberResults_Always ==
    last_query_results' =
        IF "data" \in DOMAIN ret' THEN Some(ret'.data) ELSE Some(<<>>)

\* if result.get("success"): self.last_query_results = result.get("data", [])
RememberResults ==
    last_query_results' =
        IF "success" \in DOMAIN ret' /\ ret'.success
        THEN Some(ret'.data) ELSE last_query_results

\* the agent's objects after HealthcareDataAgent.__init__; its SQLValidator()
\* has the default max_query_length, scaled here to the model's inputs
Init ==
    /\ max_query_length = 40
    /\ max_rows \in MaxRowsValues
    /\ query_history = <<>>
    /\ db_statements = <<>>
    /\ last_query_results = None
    /\ pending_sql = None
    /\ op = "pending"
    /\ arg = ""
    /\ ret = None
    /\ calls = <<>>
    /\ validated = <<>>
    /\ threads = <<>>
    /\ data_dictionary = None
    /\ cache_file = AbsentFile
    /\ created = 0
    /\ messages = <<>>
    /\ chat = IdleChat
    /\ engine = None
    /\ engines_created = 0
    /\ connections = {}
    /\ db_call = "idle"

\* HealthcareDataAgent._handle_tool_call("execute_sql", {"sql": sql})
ExecuteSql(sql) ==
    /\ Len(db_statements) < MaxHistory
    /\ op' = "execute_sql"
    /\ arg' = sql
    /\ execute_query(sql)
    /\ RememberResults
    /\ UNCHANGED <<validated, threads, max_query_length, max_rows, connVars, chatVars, dictVars, pending_sql>>

\* HealthcareDataAgent.approve_sql(sql)
ApproveSql(sql) ==
    /\ Len(db_statements) < MaxHistory
    /\ op' = "approve_sql"
    /\ arg' = sql
    /\ execute_query(sql)
    /\ RememberResults
    /\ UNCHANGED <<validated, threads, max_query_length, max_rows, connVars, chatVars, dictVars, pending_sql>>

\* HealthcareDataAgent._handle_tool_call("validate_sql", {"sql": sql})
ValidateSql(sql) ==
    /\ op' = "validate_sql"
    /\ arg' = sql
    /\ ret' = validate_query(sql)
    /\ calls' = <<"validator.validate">>
    /\ UNCHANGED <<validated, threads, max_query_length, max_rows, connVars, chatVars, dictVars, query_history, db_statements,
                   last_query_results, pending_sql>>

\* HealthcareDataAgent.reset_conversation()
ResetConversation ==
    /\ op' = "reset_conversation"
    /\ arg' = ""
    /\ ret' = None
    /\ calls' = <<>>
    /\ messages' = <<>>
    /\ last_query_results' = None
    /\ pending_sql' = None
    /\ UNCHANGED <<validated, threads, max_query_length, max_rows, connVars, chat, dictVars,
                   query_history, db_statements>>

Next ==
    \/ \E sql \in ExecInputs : ExecuteSql(sql)
    \/ \E sql \in ExecInputs : ApproveSql(sql)
    \/ \E sql \in ExecInputs : ValidateSql(sql)
    \/ ResetConversation

Spec == Init /\ [][Next]_vars

-----------------------------------------------------------------------------
(* DiscoveryTool and the DatabaseConnection helpers it calls, reached from    *)
(* the agent's get_table_details and get_column_values tool calls             *)

\* DatabaseConnection.get_table_schema: f"PRAGMA table_info({table_name})"
TableInfoQuery(table_name) == "PRAGMA table_info(" \o table_name \o ")"

\* DatabaseConnection.get_table_sample:
\* f"SELECT * FROM {table_name} LIMIT {min(limit, 10)}"
TableSampleQuery(table_name, limit) ==
    "SELECT * FROM " \o table_name \o " LIMIT "
        \o ToString(IF limit < 10 THEN limit ELSE 10)

\* DatabaseConnection.get_row_count: f"SELECT COUNT(*) as count FROM {table_name}"
RowCountQuery(table_name) == "SELECT COUNT(*) as count FROM " \o table_name

\* DiscoveryTool.get_table_details:
\* f"SELECT COUNT(DISTINCT {col['name']}) as cnt FROM {table_name}"
DistinctQuery(col_name, table_name) ==
    "SELECT COUNT(DISTINCT " \o col_name \o ") as cnt FROM " \o table_name

\* DiscoveryTool.get_column_values: the f-string over seven lines
ColumnValuesQuery(table_name, column_name, limit) ==
    "\n            SELECT " \o column_name \o ", COUNT(*) as count"
        \o "\n            FROM " \o table_name
        \o "\n            WHERE " \o column_name \o " IS NOT NULL"
        \o "\n            GROUP BY " \o column_name
        \o "\n            ORDER BY count DESC"
        \o "\n            LIMIT " \o ToString(limit)
        \o "\n        "

\* the table and column names the agent puts in tool_input
TableNames == {"disease_burden", "users\n", "t; DROP TABLE t--"}
ColumnNames == {"country", "1 FROM sqlite_master --"}

\* tool_input.get("limit", 100)
ColumnValueLimits == {100, 5}

\* the column names PRAGMA table_info returns
Schemas == {<<>>, <<"id">>, <<"id", "country">>}

\* DiscoveryTool.get_table_details(table_name): the statements it sends and
\* what it returns; a database call that raises ends it, except the distinct
\* count, whose exception leaves distinct_values None
TableDetailsRuns(table_name) ==
    LET schema_query == TableInfoQuery(table_name)
        sample_query == TableSampleQuery(table_name, 5)
        count_query  == RowCountQuery(table_name)
    IN  { [statements |-> <<schema_query>>, raised |-> TRUE, columns |-> <<>>],
          [statements |-> <<schema_query, sample_query>>,
           raised |-> TRUE, columns |-> <<>>],
          [statements |-> <<schema_query, sample_query, count_query>>,
           raised |-> TRUE, columns |-> <<>>] }
        \cup
        { [statements |->
               <<schema_query, sample_query, count_query>>
                   \o [k \in 1..Len(schema) |-> DistinctQuery(schema[k], table_name)],
           raised |-> FALSE, columns |-> schema] :
             schema \in Schemas }

\* HealthcareDataAgent._handle_tool_call("get_table_details", {"table_name": ...})
GetTableDetails(table_name) ==
    /\ Len(db_statements) < MaxHistory
    /\ op' = "get_table_details"
    /\ arg' = <<table_name>>
    /\ \E run \in TableDetailsRuns(table_name) :
           /\ db_statements' = db_statements \o run.statements
           /\ ret' = IF run.raised THEN Raised("OperationalError")
                      ELSE [table_name |-> table_name, columns |-> run.columns]
           /\ calls' = [k \in 1..Len(run.statements) |-> "db.execute_query"]
    /\ UNCHANGED <<validated, threads, max_query_length, max_rows, connVars, chatVars, dictVars,
                   query_history, last_query_results, pending_sql>>

\* HealthcareDataAgent._handle_tool_call("get_column_values", {...})
GetColumnValues(table_name, column_name, limit) ==
    /\ Len(db_statements) < MaxHistory
    /\ op' = "get_column_values"
    /\ arg' = <<table_name, column_name>>
    /\ db_statements' =
           Append(db_statements, ColumnValuesQuery(table_name, column_name, limit))
    /\ \E outcome \in DbOutcomes :
           ret' = IF outcome.raised THEN Raised(outcome.error)
                  ELSE [table |-> table_name, column |-> column_name,
                        distinct_values |-> outcome.rows,
                        total_distinct |-> Len(outcome.rows)]
    /\ calls' = <<"db.execute_query">>
    /\ UNCHANGED <<validated, threads, max_query_length, max_rows, connVars, chatVars, dictVars,
                   query_history, last_query_results, pending_sql>>

NextDiscovery ==
    \/ \E table_name \in TableNames : GetTableDetails(table_name)
    \/ \E table_name \in TableNames, column_name \in ColumnNames,
          limit \in ColumnValueLimits :
           GetColumnValues(table_name, column_name, limit)

SpecDiscovery == Init /\ [][NextDiscovery]_vars

-----------------------------------------------------------------------------
(* get_data_dictionary and the module-level singleton of data_dictionary.py *)

\* DataDictionary objects one process constructs in the model
MaxCreated == 4

\* a DataDictionary object: which construction made it, and its generated_at
Dictionary(id, generated_at) == [id |-> id, generated_at |-> generated_at]

\* _dictionary_cache_path.exists(), and whether DataDictionary.load can read it
CacheExists == cache_file # AbsentFile
CacheLoads == cache_file.content = "saved"

\* _data_dictionary.save(_dictionary_cache_path) inside try/except: the file
\* is written, or write_text raises and the file is as it was or cut short
SaveOutcomes(dictionary) ==
    {SavedFile(dictionary.generated_at), cache_file, InvalidFile}

\* the lines from "# Generate fresh" on: DataDictionary.generate() reads the
\* database and may raise; the new object replaces _data_dictionary and is saved
GenerateFresh(before) ==
    \/ /\ ret' = Propagated("OperationalError")
       /\ calls' = before \o <<"DataDictionary.generate", "db.get_table_names">>
       /\ UNCHANGED dictVars
    \/ LET fresh == Dictionary(created + 1, created + 1)
       IN  /\ created' = created + 1
           /\ data_dictionary' = Some(fresh)
           /\ \E saved \in SaveOutcomes(fresh) : cache_file' = saved
           /\ ret' = fresh
           /\ calls' = before \o <<"DataDictionary.generate", "db.get_table_names",
                                    "save">>

\* DataDictionary.load(_dictionary_cache_path) inside try/except
LoadFromCache(before) ==
    IF CacheLoads
    THEN LET loaded == Dictionary(created + 1, cache_file.generated_at)
         IN  /\ created' = created + 1
             /\ data_dictionary' = Some(loaded)
             /\ ret' = loaded
             /\ calls' = before \o <<"DataDictionary.load">>
             /\ UNCHANGED cache_file
    ELSE GenerateFresh(before \o <<"DataDictionary.load">>)

\* get_data_dictionary with "and not force_refresh" left out of the cache test
get_data_dictionary_CacheFirst(force_refresh) ==
    IF data_dictionary # None /\ ~force_refresh
    THEN /\ ret' = data_dictionary[1]
         /\ calls' = <<>>
         /\ UNCHANGED dictVars
    ELSE IF CacheExists
         THEN LoadFromCache(<<"exists">>)
         ELSE GenerateFresh(<<"exists">>)

\* get_data_dictionary(force_refresh)
get_data_dictionary(force_refresh) ==
    IF data_dictionary # None /\ ~force_refresh
    THEN /\ ret' = data_dictionary[1]
         /\ calls' = <<>>
         /\ UNCHANGED dictVars
    ELSE IF CacheExists /\ ~force_refresh
         THEN LoadFromCache(<<"exists">>)
         ELSE GenerateFresh(<<"exists">>)

\* a call of get_data_dictionary by HealthcareDataAgent.__init__ or app.py
GetDataDictionary(force_refresh) ==
    /\ created < MaxCreated
    /\ op' = "get_data_dictionary"
    /\ arg' = [force_refresh |-> force_refresh]
    /\ get_data_dictionary(force_refresh)
    /\ UNCHANGED <<validated, threads, max_query_length, max_rows, connVars, chatVars, query_history,
                   db_statements, last_query_results, pending_sql>>

\* the cache file is a file on disk: something else removes or damages it
CacheFileChanges(content) ==
    /\ cache_file # content
    /\ cache_file' = content
    /\ op' = "cache_file_changes"
    /\ arg' = [force_refresh |-> FALSE]
    /\ ret' = None
    /\ calls' = <<>>
    /\ UNCHANGED <<data_dictionary, created, validated, threads, max_query_length,
                   max_rows, connVars, chatVars, query_history, db_statements, last_query_results,
                   pending_sql>>

\* the process ends and a new one imports data_dictionary.py
ProcessRestart ==
    /\ data_dictionary # None
    /\ data_dictionary' = None
    /\ op' = "process_restart"
    /\ arg' = [force_refresh |-> FALSE]
    /\ ret' = None
    /\ calls' = <<>>
    /\ UNCHANGED <<cache_file, created, validated, threads, max_query_length,
                   max_rows, connVars, chatVars, query_history, db_statements, last_query_results,
                   pending_sql>>

\* a process starts with no dictionary in memory and whatever cache file an
\* earlier run left
InitDictionary ==
    /\ max_query_length = 40
    /\ max_rows \in MaxRowsValues
    /\ query_history = <<>>
    /\ db_statements = <<>>
    /\ last_query_results = None
    /\ pending_sql = None
    /\ op = "pending"
    /\ arg = [force_refresh |-> FALSE]
    /\ ret = None
    /\ calls = <<>>
    /\ validated = <<>>
    /\ threads = <<>>
    /\ data_dictionary = None
    /\ cache_file \in {AbsentFile, InvalidFile, SavedFile(0)}
    /\ created = 0
    /\ messages = <<>>
    /\ chat = IdleChat
    /\ engine = None
    /\ engines_created = 0
    /\ connections = {}
    /\ db_call = "idle"

NextDictionary ==
    \/ \E force_refresh \in BOOLEAN : GetDataDictionary(force_refresh)
    \/ \E content \in {AbsentFile, InvalidFile} : CacheFileChanges(content)
    \/ ProcessRestart

SpecDictionary == InitDictionary /\ [][NextDictionary]_vars

-----------------------------------------------------------------------------
(* The agent with all the tools _handle_tool_call dispatches to *)

\* the tools whose data defaults to self.last_query_results or []
ResultTools == {"export_results", "suggest_charts", "create_chart",
                "derive_insights"}

\* the tools that take no data, and a name _handle_tool_call does not know
PlainTools == {"get_database_overview", "search_columns", "no_such_tool"}

\* the data the model may put in tool_input itself
SuppliedData == {None, Some(<<Row(7)>>)}

\* self.last_query_results or []
ResultsOrEmpty == IF last_query_results = None THEN <<>> ELSE last_query_results[1]

\* _handle_tool_call for export_results, suggest_charts, create_chart and
\* derive_insights: tool_input.get("data", self.last_query_results or []) is
\* handed to the tool, which reads it
UseResults(tool_name, supplied) ==
    /\ op' = tool_name
    /\ arg' = ""
    /\ ret' = [tool |-> tool_name,
               data |-> IF supplied = None THEN ResultsOrEmpty ELSE supplied[1]]
    /\ calls' = <<tool_name>>
    /\ UNCHANGED <<validated, threads, max_query_length, max_rows, connVars, chatVars, dictVars,
                   query_history, db_statements, last_query_results, pending_sql>>

\* _handle_tool_call for get_database_overview, search_columns and the else
\* branch
PlainToolCall(tool_name) ==
    /\ op' = tool_name
    /\ arg' = ""
    /\ ret' = IF tool_name = "no_such_tool"
              THEN [error |-> "Unknown tool: " \o tool_name]
              ELSE [tool |-> tool_name]
    /\ calls' = IF tool_name = "no_such_tool" THEN <<>> ELSE <<tool_name>>
    /\ UNCHANGED <<validated, threads, max_query_length, max_rows, connVars, chatVars, dictVars,
                   query_history, db_statements, last_query_results, pending_sql>>

\* the SQL the model puts in tool_input for the agent with all its tools
AgentSql == {"SELECT x", "DELETE FROM t", "with t SELECT x LIMIT 5"}

NextAgent ==
    \/ \E sql \in AgentSql : ExecuteSql(sql)
    \/ \E sql \in AgentSql : ApproveSql(sql)
    \/ \E sql \in AgentSql : ValidateSql(sql)
    \/ ResetConversation
    \/ GetTableDetails("disease_burden")
    \/ GetColumnValues("disease_burden", "country", 100)
    \/ \E tool_name \in ResultTools, supplied \in SuppliedData :
           UseResults(tool_name, supplied)
    \/ \E tool_name \in PlainTools : PlainToolCall(tool_name)

SpecAgent == Init /\ [][NextAgent]_vars

-----------------------------------------------------------------------------
(* HealthcareDataAgent.chat: the loop between the model and the tools *)

\* messages one conversation holds in the model
MaxMessages == 5

\* a content block of a response: its type, and for tool_use its id and name
Block(type, id, name) == [type |-> type, id |-> id, name |-> name]
TextBlock == Block("text", "", "")

\* the blocks a response may hold; "thinking" is a type chat() passes over
ResponseBlocks ==
    {TextBlock, Block("thinking", "", ""),
     Block("tool_use", "toolu_1", "execute_sql"),
     Block("tool_use", "toolu_2", "get_column_values")}

\* what self.client.messages.create may return
Responses ==
    { [content |-> c, stop_reason |-> r] :
          c \in {<<>>} \cup { <<b>> : b \in ResponseBlocks }
                 \cup { <<b1, b2>> : b1 \in ResponseBlocks \ {TextBlock},
                                      b2 \in ResponseBlocks },
          r \in {"end_turn", "tool_use", "max_tokens"} }

\* the blocks of content whose type is one of types, in order
RECURSIVE BlocksOfType(_, _)
BlocksOfType(content, types) ==
    IF content = <<>> THEN <<>>
    ELSE (IF Head(content).type \in types THEN <<Head(content)>> ELSE <<>>)
             \o BlocksOfType(Tail(content), types)

ToolResult(tool_use_id) == Block("tool_result", tool_use_id, "")

\* self.messages.append({"role": "user", "content": user_message})
Chat ==
    /\ chat.pc = "idle"
    /\ Len(messages) < MaxMessages
    /\ messages' = Append(messages, [role |-> "user", content |-> <<TextBlock>>])
    /\ chat' = [IdleChat EXCEPT !.pc = "create"]
    /\ op' = "chat"
    /\ arg' = ""
    /\ ret' = None
    /\ calls' = <<>>
    /\ UNCHANGED <<validated, threads, max_query_length, max_rows, connVars, dictVars,
                   query_history, db_statements, last_query_results, pending_sql>>

\* one pass from self.client.messages.create to the test for tool calls
CreateMessage(response) ==
    LET assistant_content == BlocksOfType(response.content, {"text", "tool_use"})
        tool_calls_to_process == BlocksOfType(response.content, {"tool_use"})
    IN  /\ chat.pc = "create"
        /\ Len(messages) < MaxMessages
        /\ messages' =
               Append(messages, [role |-> "assistant", content |-> assistant_content])
        /\ chat' = IF tool_calls_to_process = <<>>
                   THEN IdleChat
                   ELSE [pc |-> "tools", tool_calls |-> tool_calls_to_process,
                         stop_reason |-> response.stop_reason,
                         tool_results |-> <<>>]
        /\ op' = "messages.create"
        /\ arg' = ""
        /\ ret' = None
        /\ calls' = <<"client.messages.create">>
        /\ UNCHANGED <<validated, threads, max_query_length, max_rows, connVars, dictVars,
                       query_history, db_statements, last_query_results,
                       pending_sql>>

\* the tool call the for loop handles next
NextToolCall == chat.tool_calls[Len(chat.tool_results) + 1]

\* the loop body for an execute_sql block: _handle_tool_call, then the
\* tool_result is kept for the message
HandleExecuteSql(sql) ==
    /\ chat.pc = "tools"
    /\ Len(chat.tool_results) < Len(chat.tool_calls)
    /\ NextToolCall.name = "execute_sql"
    /\ op' = "execute_sql"
    /\ arg' = sql
    /\ execute_query(sql)
    /\ RememberResults
    /\ chat' = [chat EXCEPT !.tool_results = Append(@, ToolResult(NextToolCall.id))]
    /\ UNCHANGED <<validated, threads, max_query_length, max_rows, connVars, dictVars,
                   messages, pending_sql>>

\* the loop body for a get_column_values block: DiscoveryTool has no handler
\* around db.execute_query, so an exception of the database leaves
\* _handle_tool_call and chat()
HandleGetColumnValues(table_name, column_name) ==
    /\ chat.pc = "tools"
    /\ Len(chat.tool_results) < Len(chat.tool_calls)
    /\ NextToolCall.name = "get_column_values"
    /\ op' = "get_column_values"
    /\ arg' = ""
    /\ db_statements' =
           Append(db_statements, ColumnValuesQuery(table_name, column_name, 100))
    /\ calls' = <<"db.execute_query">>
    /\ \E outcome \in DbOutcomes :
           IF outcome.raised
           THEN /\ ret' = Propagated(outcome.error)
                /\ chat' = IdleChat
           ELSE /\ ret' = [table |-> table_name, column |-> column_name,
                           distinct_values |-> outcome.rows,
                           total_distinct |-> Len(outcome.rows)]
                /\ chat' = [chat EXCEPT
                               !.tool_results = Append(@, ToolResult(NextToolCall.id))]
    /\ UNCHANGED <<validated, threads, max_query_length, max_rows, connVars, dictVars,
                   messages, query_history, last_query_results, pending_sql>>

\* after the for loop: the tool results become a user message, and the loop
\* ends when stop_reason is end_turn
AppendToolResults ==
    /\ chat.pc = "tools"
    /\ Len(chat.tool_results) = Len(chat.tool_calls)
    /\ messages' = Append(messages, [role |-> "user", content |-> chat.tool_results])
    /\ chat' = IF chat.stop_reason = "end_turn"
               THEN IdleChat
               ELSE [IdleChat EXCEPT !.pc = "create"]
    /\ op' = "tool_results"
    /\ arg' = ""
    /\ ret' = None
    /\ calls' = <<>>
    /\ UNCHANGED <<validated, threads, max_query_length, max_rows, connVars, dictVars,
                   query_history, db_statements, last_query_results, pending_sql>>

NextChat ==
    \/ Chat
    \/ \E response \in Responses : CreateMessage(response)
    \/ \E sql \in {"SELECT x", "DELETE FROM t"} : HandleExecuteSql(sql)
    \/ HandleGetColumnValues("disease_burden", "country")
    \/ AppendToolResults

SpecChat == Init /\ [][NextChat]_vars

-----------------------------------------------------------------------------
(* SQLExecutorTool.get_query_history between executions *)

\* the limits callers pass; 10 is the default
HistoryLimits == {0, 1, 2, 3, 10}

\* seq[start:] of Python for a start of either sign
SliceFrom(seq, start) ==
    LET n == Len(seq)
        first == IF start >= 0
                 THEN (IF start < n THEN start ELSE n)
                 ELSE (IF n + start > 0 THEN n + start ELSE 0)
    IN  SubSeq(seq, first + 1, n)

\* SQLExecutorTool.get_query_history: self.query_history[-limit:]
get_query_history(limit) == SliceFrom(query_history, 0 - limit)

\* HealthcareDataAgent.get_query_history and callers of the executor's method
GetQueryHistory(limit) ==
    /\ op' = "get_query_history"
    /\ arg' = limit
    /\ ret' = get_query_history(limit)
    /\ calls' = <<>>
    /\ UNCHANGED <<validated, threads, max_query_length, max_rows, connVars, dictVars,
                   chatVars, query_history, db_statements, last_query_results,
                   pending_sql>>

NextHistory ==
    \/ \E sql \in AgentSql : ExecuteSql(sql)
    \/ \E limit \in HistoryLimits : GetQueryHistory(limit)

SpecHistory == Init /\ [][NextHistory]_vars

-----------------------------------------------------------------------------
(* DatabaseConnection: the lazy engine, and the connection of each call *)

\* the statements callers hand to DatabaseConnection.execute_query
DbStatements ==
    {"SELECT x LIMIT 3", "SELEC x", "PRAGMA table_info(t)",
     "SELECT COUNT(*) as count FROM t",
     "SELECT name FROM sqlite_master WHERE type='table' ORDER BY name"}

\* the engine property: create_engine on first use, self._engine afterwards
EngineAfterUse == IF engine = None THEN Some(engines_created + 1) ELSE engine

\* "with self.get_connection() as conn" up to the yield: the engine property,
\* then engine.connect(), which opens a connection or raises
Connect(sql) ==
    /\ db_call = "idle"
    /\ Len(db_statements) < MaxHistory
    /\ op' = "db.execute_query"
    /\ arg' = sql
    /\ calls' = IF engine = None THEN <<"create_engine", "engine.connect">>
                ELSE <<"engine.connect">>
    /\ engine' = EngineAfterUse
    /\ engines_created' = IF engine = None THEN engines_created + 1
                          ELSE engines_created
    /\ \/ /\ connections' = connections \cup {Len(db_statements) + 1}
          /\ db_call' = "connected"
          /\ db_statements' = Append(db_statements, sql)
          /\ ret' = None
       \/ /\ ret' = Some([raised |-> TRUE, rows |-> <<>>, error |-> "OperationalError"])
          /\ UNCHANGED <<connections, db_call, db_statements>>
    /\ UNCHANGED <<validated, threads, max_query_length, max_rows, dictVars,
                   chatVars, query_history, last_query_results, pending_sql>>

\* the body of the with block and its exit, without the finally of
\* get_connection: the connection is closed only when the body returns
RunAndClose_NoFinally ==
    /\ db_call = "connected"
    /\ db_call' = "idle"
    /\ \E outcome \in DbOutcomes :
           /\ ret' = Some(outcome)
           /\ connections' = IF outcome.raised THEN connections
                              ELSE connections \ {Len(db_statements)}
    /\ calls' = <<"conn.execute", "conn.close">>
    /\ UNCHANGED <<op, arg, engine, engines_created, db_statements, validated,
                   threads, max_query_length, max_rows, dictVars, chatVars,
                   query_history, last_query_results, pending_sql>>

\* the body of the with block, conn.execute and fetchmany, which returns rows
\* or raises, and the finally of get_connection, which closes the connection
RunAndClose ==
    /\ db_call = "connected"
    /\ db_call' = "idle"
    /\ \E outcome \in DbOutcomes : ret' = Some(outcome)
    /\ connections' = connections \ {Len(db_statements)}
    /\ calls' = <<"conn.execute", "conn.close">>
    /\ UNCHANGED <<op, arg, engine, engines_created, db_statements, validated,
                   threads, max_query_length, max_rows, dictVars, chatVars,
                   query_history, last_query_results, pending_sql>>

NextConnection ==
    \/ \E sql \in DbStatements : Connect(sql)
    \/ RunAndClose

SpecConnection == Init /\ [][NextConnection]_vars

-----------------------------------------------------------------------------
(* Properties of the executor, stated on the steps of Spec *)

ThroughExecutor == {"execute_sql", "approve_sql"}

\* C1: execute_query calls validate on its input before anything else; when the
\* verdict is false it makes no other call, sends nothing to the database and
\* returns success == False with an error. This holds for the execute_sql tool
\* call and for approve_sql.
C1_ValidateGatesExecution ==
    [][ op' \in ThroughExecutor =>
            /\ calls' # <<>>
            /\ Head(calls') = "validator.validate"
            /\ ~validate(arg')[1] =>
                   /\ calls' = <<"validator.validate">>
                   /\ db_statements' = db_statements
                   /\ ret'.success = FALSE
                   /\ "error" \in DOMAIN ret' ]_vars

\* approve_sql was handed a rejected statement after the database had run one:
\* the database has seen nothing more
C1_Witness ==
    /\ op = "approve_sql"
    /\ ~validate(arg)[1]
    /\ calls = <<"validator.validate">>
    /\ ret.success = FALSE
    /\ "error" \in DOMAIN ret
    /\ Len(db_statements) = 1
    /\ db_statements[1] # arg

-----------------------------------------------------------------------------
(* The validator alone: one call of an operation on one input *)

InitValidator ==
    /\ \/ max_query_length \in MaxQueryLengths /\ arg \in Inputs
       \/ max_query_length = DefaultMaxQueryLength /\ arg \in Scenarios
    /\ max_rows \in MaxRowsValues
    /\ query_history = <<>>
    /\ db_statements = <<>>
    /\ last_query_results = None
    /\ pending_sql = None
    /\ op = "pending"
    /\ ret = None
    /\ calls = <<>>
    /\ validated = <<>>
    /\ threads = <<>>
    /\ data_dictionary = None
    /\ cache_file = AbsentFile
    /\ created = 0
    /\ messages = <<>>
    /\ chat = IdleChat
    /\ engine = None
    /\ engines_created = 0
    /\ connections = {}
    /\ db_call = "idle"

\* SQLValidator.validate(arg)
Validate ==
    /\ op = "pending"
    /\ op' = "validate"
    /\ ret' = validate(arg)
    /\ UNCHANGED <<validated, threads, max_query_length, max_rows, connVars, chatVars, dictVars, query_history, db_statements,
                   last_query_results, pending_sql, arg, calls>>

NextValidator == Validate

SpecValidator == InitValidator /\ [][NextValidator]_vars

-----------------------------------------------------------------------------
(* One SQLValidator used call after call *)

\* distinct strings the model lets one validator see
MaxValidated == 2

\* the identifiers handed to the helpers between validate calls
SessionIdentifiers == {"user_name", "a-b c;d", "x\n"}

\* SQLValidator(max_query_length=...) with nothing called yet
InitSession ==
    /\ max_query_length \in MaxQueryLengths
    /\ max_rows \in MaxRowsValues
    /\ query_history = <<>>
    /\ db_statements = <<>>
    /\ last_query_results = None
    /\ pending_sql = None
    /\ op = "pending"
    /\ arg = ""
    /\ ret = None
    /\ calls = <<>>
    /\ validated = <<>>
    /\ threads = <<>>
    /\ data_dictionary = None
    /\ cache_file = AbsentFile
    /\ created = 0
    /\ messages = <<>>
    /\ chat = IdleChat
    /\ engine = None
    /\ engines_created = 0
    /\ connections = {}
    /\ db_call = "idle"

\* the history after validate(sql) returned result: the first result of each
\* string, and whether the string was validated once or more often
Record(sql, result) ==
    IF sql \in DOMAIN validated
    THEN [validated EXCEPT ![sql].calls = 2]
    ELSE [s \in DOMAIN validated \cup {sql} |->
             IF s = sql THEN [first |-> result, calls |-> 1] ELSE validated[s]]

\* validate storing the length of its input as the validator's limit
SessionValidate_StoresLength(sql) ==
    /\ op' = "validate"
    /\ arg' = sql
    /\ ret' = validate(sql)
    /\ validated' = Record(sql, ret')
    /\ max_query_length' = Len(sql)
    /\ UNCHANGED <<threads, max_rows, connVars, chatVars, dictVars, query_history, db_statements,
                   last_query_results, pending_sql, calls>>

\* SQLValidator.validate(sql), one call among others on the same validator
SessionValidate(sql) ==
    /\ op' = "validate"
    /\ arg' = sql
    /\ ret' = validate(sql)
    /\ validated' = Record(sql, ret')
    /\ UNCHANGED <<threads, max_query_length, max_rows, connVars, chatVars, dictVars, query_history,
                   db_statements, last_query_results, pending_sql, calls>>

\* SQLValidator.sanitize_identifier(identifier)
SanitizeIdentifier(identifier) ==
    /\ op' = "sanitize_identifier"
    /\ arg' = identifier
    /\ ret' = sanitize_identifier(identifier)
    /\ UNCHANGED <<validated, threads, max_query_length, max_rows, connVars, chatVars, dictVars,
                   query_history, db_statements, last_query_results,
                   pending_sql, calls>>

\* SQLValidator.is_safe_identifier(identifier)
IsSafeIdentifier(identifier) ==
    /\ op' = "is_safe_identifier"
    /\ arg' = identifier
    /\ ret' = is_safe_identifier(identifier)
    /\ UNCHANGED <<validated, threads, max_query_length, max_rows, connVars, chatVars, dictVars,
                   query_history, db_statements, last_query_results,
                   pending_sql, calls>>

NextSession ==
    \/ \E sql \in SessionInputs :
           /\ sql \in DOMAIN validated \/ Cardinality(DOMAIN validated) < MaxValidated
           /\ SessionValidate(sql)
    \/ \E identifier \in SessionIdentifiers : SanitizeIdentifier(identifier)
    \/ \E identifier \in SessionIdentifiers : IsSafeIdentifier(identifier)

SpecSession == InitSession /\ [][NextSession]_vars

-----------------------------------------------------------------------------
(* One SQLValidator given a string and then the same string in another case *)

\* upper case at the odd positions, lower case at the even ones
RECURSIVE Alternate(_)
Alternate(s) ==
    IF s = "" THEN ""
    ELSE UpperChar(CharAt(s, 1)) \o LowerChar(CharAt(s, 2)) \o UpperChar(CharAt(s, 3))
             \o LowerChar(CharAt(s, 4)) \o UpperChar(CharAt(s, 5)) \o LowerChar(CharAt(s, 6))
             \o UpperChar(CharAt(s, 7)) \o LowerChar(CharAt(s, 8))
             \o Alternate(SubSeq(s, 9, Len(s)))

\* s with the case of its ASCII letters changed
CaseVariants(s) == {Upper(s), Lower(s), SwapCase(s), Alternate(s)} \ {s}

\* every leading word followed by at most one fragment or signature
RecaseInputs ==
    { l \o h \o f : l \in Leads, h \in Heads \cup OtherHeads,
                     f \in Frags \cup Signatures \cup {""} }

InitRecase ==
    /\ \/ max_query_length \in MaxQueryLengths /\ arg \in RecaseInputs
       \/ max_query_length = DefaultMaxQueryLength /\ arg \in Scenarios
    /\ max_rows \in MaxRowsValues
    /\ query_history = <<>>
    /\ db_statements = <<>>
    /\ last_query_results = None
    /\ pending_sql = None
    /\ op = "pending"
    /\ ret = None
    /\ calls = <<>>
    /\ validated = <<>>
    /\ threads = <<>>
    /\ data_dictionary = None
    /\ cache_file = AbsentFile
    /\ created = 0
    /\ messages = <<>>
    /\ chat = IdleChat
    /\ engine = None
    /\ engines_created = 0
    /\ connections = {}
    /\ db_call = "idle"

\* validate(arg)
RecaseFirst ==
    /\ op = "pending"
    /\ SessionValidate(arg)

\* validate(variant) once validate(arg) has returned
RecaseSecond(variant) ==
    /\ op = "validate"
    /\ DOMAIN validated = {arg}
    /\ SessionValidate(variant)

NextRecase ==
    \/ RecaseFirst
    \/ \E variant \in CaseVariants(arg) : RecaseSecond(variant)

SpecRecase == InitRecase /\ [][NextRecase]_vars

-----------------------------------------------------------------------------
(* Several validate calls in progress on one SQLValidator, statement by       *)
(* statement. A call keeps sql, normalized, semicolon_count and its result in *)
(* locals; it reads max_query_length and the compiled patterns of the         *)
(* validator.                                                                 *)

\* calls the model runs at the same time
NumThreads == 2

Threads == 1..NumThreads

\* the SQL strings the concurrent callers pass
ThreadInputs ==
    {"select x", "", "insert x", "SELECT 'Delete'",
     "select 1 union all select 2", "SELECT x; y"}

IdleThread ==
    [pc |-> "idle", sql |-> "", normalized |-> "", semicolon_count |-> 0,
     ret |-> None]

InitConcurrent ==
    /\ max_query_length \in MaxQueryLengths
    /\ max_rows \in MaxRowsValues
    /\ query_history = <<>>
    /\ db_statements = <<>>
    /\ last_query_results = None
    /\ pending_sql = None
    /\ op = "pending"
    /\ arg = ""
    /\ ret = None
    /\ calls = <<>>
    /\ validated = <<>>
    /\ threads = [t \in Threads |-> IdleThread]
    /\ data_dictionary = None
    /\ cache_file = AbsentFile
    /\ created = 0
    /\ messages = <<>>
    /\ chat = IdleChat
    /\ engine = None
    /\ engines_created = 0
    /\ connections = {}
    /\ db_call = "idle"

\* what a step of a call leaves alone: everything but the call's own locals
OnlyThreads ==
    UNCHANGED <<max_query_length, max_rows, connVars, chatVars, dictVars, query_history, db_statements,
                last_query_results, pending_sql, op, arg, ret, calls, validated>>

\* the call of thread t goes on at statement pc
Goto(t, pc) == threads' = [threads EXCEPT ![t].pc = pc]

\* the call of thread t returns result
Return(t, result) == threads' = [threads EXCEPT ![t].pc = "done", ![t].ret = result]

\* thread t calls validate(sql)
Call(t, sql) ==
    /\ threads[t].pc = "idle"
    /\ threads' = [threads EXCEPT ![t].pc = "empty", ![t].sql = sql]
    /\ OnlyThreads

\* if not sql or not sql.strip(): return False, "Empty query"
CheckEmpty(t) ==
    /\ threads[t].pc = "empty"
    /\ IF IsEmptyQuery(threads[t].sql)
       THEN Return(t, <<FALSE, EmptyReason>>)
       ELSE Goto(t, "length")
    /\ OnlyThreads

\* if len(sql) > self.max_query_length: return False, ...
CheckLength(t) ==
    /\ threads[t].pc = "length"
    /\ IF ExceedsLength(threads[t].sql, max_query_length)
       THEN Return(t, <<FALSE, LengthReason(max_query_length)>>)
       ELSE Goto(t, "normalize")
    /\ OnlyThreads

\* normalized kept in an attribute of the validator, which every call reads
Normalize_Shared(t) ==
    /\ threads[t].pc = "normalize"
    /\ threads' = [u \in Threads |->
                      [threads[u] EXCEPT
                          !.normalized = strip(threads[t].sql),
                          !.pc = IF u = t THEN "anchor" ELSE threads[u].pc]]
    /\ OnlyThreads

\* normalized = sql.strip()
Normalize(t) ==
    /\ threads[t].pc = "normalize"
    /\ threads' = [threads EXCEPT ![t].normalized = strip(threads[t].sql),
                                  ![t].pc = "anchor"]
    /\ OnlyThreads

\* if not re.match(r"^\s*(SELECT|WITH)\b", normalized, re.IGNORECASE): return ...
CheckAnchor(t) ==
    /\ threads[t].pc = "anchor"
    /\ IF ~StartsWithSelectOrWith(Upper(threads[t].normalized))
       THEN Return(t, <<FALSE, AnchorReason>>)
       ELSE Goto(t, "write")
    /\ OnlyThreads

\* if self._write_pattern.search(normalized): return False, f"Write ..."
ScanWrite(t) ==
    /\ threads[t].pc = "write"
    /\ LET normalized == threads[t].normalized
           folded == Upper(normalized)
       IN  IF HasWriteKeyword(folded)
           THEN Return(t, <<FALSE, WriteReason(WriteMatchGroup(normalized, folded))>>)
           ELSE Goto(t, "injection")
    /\ OnlyThreads

\* for pattern in self._injection_patterns: if pattern.search(normalized): ...
ScanInjection(t) ==
    /\ threads[t].pc = "injection"
    /\ IF HasInjectionPattern(Upper(threads[t].normalized))
       THEN Return(t, <<FALSE, InjectionReason>>)
       ELSE Goto(t, "count")
    /\ OnlyThreads

\* semicolon_count = normalized.count(";"); if semicolon_count > 1: return ...
CountSemicolons(t) ==
    /\ threads[t].pc = "count"
    /\ LET n == count(threads[t].normalized, ";")
       IN  threads' = [threads EXCEPT
                          ![t].semicolon_count = n,
                          ![t].pc = IF n > 1 THEN "done" ELSE "placement",
                          ![t].ret = IF n > 1 THEN <<FALSE, MultipleReason>>
                                     ELSE threads[t].ret]
    /\ OnlyThreads

\* if semicolon_count == 1 and not normalized.rstrip().endswith(";"): return ...
\* return True, ""
CheckPlacement(t) ==
    /\ threads[t].pc = "placement"
    /\ IF /\ threads[t].semicolon_count = 1
          /\ ~endswith(rstrip(threads[t].normalized), ";")
       THEN Return(t, <<FALSE, SemicolonReason>>)
       ELSE Return(t, <<TRUE, "">>)
    /\ OnlyThreads

NextConcurrent ==
    \E t \in Threads :
        \/ \E sql \in ThreadInputs : Call(t, sql)
        \/ CheckEmpty(t)
        \/ CheckLength(t)
        \/ Normalize(t)
        \/ CheckAnchor(t)
        \/ ScanWrite(t)
        \/ ScanInjection(t)
        \/ CountSemicolons(t)
        \/ CheckPlacement(t)

SpecConcurrent == InitConcurrent /\ [][NextConcurrent]_vars

-----------------------------------------------------------------------------
(* The identifier helpers alone: one call on one identifier *)

\* the longest identifier put together from IdentAlphabet
MaxIdentLen == 3

IdentAlphabet == {"a", "Z", "_", "7", "-", " ", "\n"}

\* the strings of at most n characters of IdentAlphabet
RECURSIVE IdentStrings(_)
IdentStrings(n) ==
    IF n = 0 THEN {""}
    ELSE LET shorter == IdentStrings(n - 1)
         IN  shorter \cup { s \o c : s \in shorter, c \in IdentAlphabet }

Identifiers ==
    IdentStrings(MaxIdentLen)
    \cup {"user_name", "Table1", "_private", "123start", "user-name", "user name",
          "_x1", "1x", "a b", "a-b c;d", "user; DROP TABLE--", "users\n",
          "users\n\n", "users;\n", "a.b"}

InitIdentifier ==
    /\ max_query_length = DefaultMaxQueryLength
    /\ max_rows \in MaxRowsValues
    /\ query_history = <<>>
    /\ db_statements = <<>>
    /\ last_query_results = None
    /\ pending_sql = None
    /\ op = "pending"
    /\ arg \in Identifiers
    /\ ret = None
    /\ calls = <<>>
    /\ validated = <<>>
    /\ threads = <<>>
    /\ data_dictionary = None
    /\ cache_file = AbsentFile
    /\ created = 0
    /\ messages = <<>>
    /\ chat = IdleChat
    /\ engine = None
    /\ engines_created = 0
    /\ connections = {}
    /\ db_call = "idle"

NextIdentifier ==
    /\ op = "pending"
    /\ SanitizeIdentifier(arg) \/ IsSafeIdentifier(arg)

SpecIdentifier == InitIdentifier /\ [][NextIdentifier]_vars

-----------------------------------------------------------------------------
(* Properties of validate, stated on the call SpecValidator makes *)

Validated == op = "validate"
is_valid == ret[1]
reason == ret[2]

\* the write set as the specification lists it
WriteSet ==
    {"INSERT", "UPDATE", "DELETE", "DROP", "CREATE", "ALTER", "TRUNCATE",
     "REPLACE", "MERGE", "GRANT", "REVOKE", "EXEC", "EXECUTE", "CALL"}

AllSpace(s, from, to) == \A i \in from..to : IsSpace(At(s, i))

\* the upper-case text u spells w at position i
SpellsAt(u, i, w) ==
    i + Len(w) - 1 <= Len(u) /\ SubSeq(u, i, i + Len(w) - 1) = w

\* the upper-case text u spells w at position i as a whole word
WordAt(u, i, w) ==
    /\ SpellsAt(u, i, w)
    /\ i = 1 \/ ~IsWordChar(At(u, i - 1))
    /\ i + Len(w) > Len(u) \/ ~IsWordChar(At(u, i + Len(w)))

\* the trimmed text begins, in any case, with the word SELECT or WITH
BeginsWithSelectOrWith(s) ==
    LET u == Upper(strip(s)) IN WordAt(u, 1, "SELECT") \/ WordAt(u, 1, "WITH")

\* the trimmed text begins, in any case, with the letters of a write keyword
BeginsWithWriteKeyword(s) ==
    LET u == Upper(strip(s)) IN \E kw \in WriteSet : SpellsAt(u, 1, kw)

\* the trimmed text begins, in any case, with a write keyword as a word
BeginsWithWriteWord(s) ==
    LET u == Upper(strip(s)) IN \E kw \in WriteSet : WordAt(u, 1, kw)

\* the positions and keywords of the write keywords s holds, in any case, as
\* whole words
WriteWords(s) ==
    LET u == Upper(s)
    IN  { <<i, kw>> \in (1..Len(s)) \X WriteSet : WordAt(u, i, kw) }

\* the last character of s that is not white space ("" when there is none)
LastVisible(s) ==
    LET visible == { i \in 1..Len(s) : ~IsSpace(At(s, i)) }
    IN  IF visible = {} THEN ""
        ELSE At(s, CHOOSE i \in visible : \A j \in visible : j <= i)

\* no semicolon, or a single one that ends the visible text
AtMostOneTerminalSemicolon(s) ==
    count(s, ";") = 0 \/ (count(s, ";") = 1 /\ LastVisible(s) = ";")

HasInjection(s) == HasInjectionPattern(Upper(strip(s)))

IsLengthReason(r) == startswith(r, "Query exceeds maximum length of ")
IsWriteReason(r) == startswith(r, "Write operation detected: ")

\* C2: every string that begins, in any case and after trimming, with a write
\* keyword of the write set is rejected by validate.
C2_WriteKeywordFirstRejected ==
    (Validated /\ BeginsWithWriteKeyword(arg)) => is_valid = FALSE

\* a padded, lower-case write statement was rejected
C2_Witness ==
    /\ Validated
    /\ BeginsWithWriteWord(arg)
    /\ arg # strip(arg)
    /\ arg # Upper(arg)
    /\ ret = <<FALSE, AnchorReason>>

\* what C3 calls a clean read query
CleanQuery(s) ==
    /\ BeginsWithSelectOrWith(s)
    /\ WriteWords(strip(s)) = {}
    /\ ~HasInjection(s)
    /\ AtMostOneTerminalSemicolon(s)

\* C3 as written: every string that begins with SELECT or WITH and holds no
\* write keyword, no injection pattern and at most one terminal semicolon is
\* valid.
C3_CleanQueryValid ==
    (Validated /\ CleanQuery(arg)) => is_valid = TRUE

\* C3 amended: such a string is valid when its raw length is at most
\* max_query_length, and the result is then the pair (True, "").
C3_CleanQueryWithinLengthValid ==
    (Validated /\ CleanQuery(arg) /\ Len(arg) <= max_query_length)
        => ret = <<TRUE, "">>

\* a clean query that ends in a semicolon and holds a keyword inside a longer
\* word was accepted
C3_Witness ==
    /\ Validated
    /\ CleanQuery(arg)
    /\ Len(arg) <= max_query_length
    /\ count(arg, ";") = 1
    /\ Contains(arg, "updated_at")
    /\ ret = <<TRUE, "">>

\* the checks of validate, each taken alone on the input, in the order the
\* specification numbers them
CheckFails(k, s) ==
    LET n == strip(s)
        u == Upper(n)
    IN  CASE k = 1 -> n = ""
          [] k = 2 -> Len(s) > max_query_length
          [] k = 3 -> ~StartsWithSelectOrWith(u)
          [] k = 4 -> HasWriteKeyword(u)
          [] k = 5 -> HasInjectionPattern(u)
          [] k = 6 -> count(n, ";") > 1 \/ (count(n, ";") = 1 /\ LastVisible(n) # ";")

FailingChecks(s) == { k \in 1..6 : CheckFails(k, s) }

\* the check a reason belongs to (0 for the empty reason)
CheckOfReason(r) ==
    CASE r = "" -> 0
      [] r = EmptyReason -> 1
      [] IsLengthReason(r) -> 2
      [] r = AnchorReason -> 3
      [] IsWriteReason(r) -> 4
      [] r = InjectionReason -> 5
      [] r \in {MultipleReason, SemicolonReason} -> 6
      [] OTHER -> 7

\* C4: validate applies emptiness, length bound, statement-kind anchor,
\* write-keyword scan, injection scan and statement-count guard in this order:
\* the input is valid exactly when no check fails, and otherwise the reason is
\* that of the first failing check, whatever the later checks say.
C4_FirstFailingCheckWins ==
    Validated =>
        LET failing == FailingChecks(arg)
        IN  IF failing = {}
            THEN ret = <<TRUE, "">>
            ELSE /\ is_valid = FALSE
                 /\ CheckOfReason(reason) \in failing
                 /\ \A k \in failing : CheckOfReason(reason) <= k

\* an input that is too long, starts with a write keyword and holds an
\* injection pattern was rejected for its length
C4_Witness ==
    /\ Validated
    /\ {2, 3, 4, 5} \subseteq FailingChecks(arg)
    /\ 1 \notin FailingChecks(arg)
    /\ ret = <<FALSE, LengthReason(max_query_length)>>

\* C5: every input longer than max_query_length is rejected whatever it holds;
\* the length is that of the raw input, so padding counts; an input of at most
\* max_query_length characters is never rejected for its length.
C5_RawLengthBound ==
    Validated =>
        /\ Len(arg) > max_query_length => is_valid = FALSE
        /\ Len(arg) <= max_query_length => ~IsLengthReason(reason)

\* a padded query that is valid once trimmed, and then within the limit, was
\* rejected for its raw length
C5_Witness ==
    /\ Validated
    /\ Len(arg) > max_query_length
    /\ Len(strip(arg)) <= max_query_length
    /\ CleanQuery(strip(arg))
    /\ ret = <<FALSE, LengthReason(max_query_length)>>

\* C6: the empty string and every string of spaces, tabs and newlines is
\* rejected with the empty-query reason.
C6_BlankRejectedAsEmpty ==
    (Validated /\ AllSpace(arg, 1, Len(arg))) => ret = <<FALSE, EmptyReason>>

\* a blank string longer than max_query_length was rejected as empty
C6_Witness ==
    /\ Validated
    /\ AllSpace(arg, 1, Len(arg))
    /\ Len(arg) > max_query_length
    /\ ret = <<FALSE, EmptyReason>>

\* the input reaches the write-keyword scan
ReachesWriteScan(s) ==
    /\ strip(s) # ""
    /\ Len(s) <= max_query_length
    /\ BeginsWithSelectOrWith(s)

\* C7: in a query that starts with SELECT or WITH the scan finds a write keyword
\* as a whole word, in any case and anywhere, also inside a string literal; the
\* reason names the leftmost keyword as the query spells it; a keyword inside a
\* longer word (updated_at, create_date) does not reject the query.
C7_WholeWordWriteScan ==
    (Validated /\ ReachesWriteScan(arg)) =>
        LET n == strip(arg)
            words == WriteWords(n)
        IN  IF words = {}
            THEN ~IsWriteReason(reason)
            ELSE LET first == CHOOSE w \in words : \A x \in words : w[1] <= x[1]
                 IN  ret = <<FALSE,
                             "Write operation detected: "
                                 \o SubSeq(n, first[1], first[1] + Len(first[2]) - 1)>>

\* a query with updated_at and a quoted 'DELETE' was rejected for DELETE
C7_Witness ==
    /\ Validated
    /\ Contains(arg, "updated_at")
    /\ Contains(arg, "'DELETE'")
    /\ ret = <<FALSE, "Write operation detected: DELETE">>

\* the input reaches the statement-count guard
ReachesStatementCount(s) ==
    /\ ReachesWriteScan(s)
    /\ WriteWords(strip(s)) = {}
    /\ ~HasInjection(s)

\* C8: a query with exactly one semicolon that passes every earlier check is
\* valid if and only if the semicolon is its last character that is not white
\* space.
C8_SingleSemicolonTerminal ==
    (Validated /\ count(arg, ";") = 1 /\ ReachesStatementCount(arg)) =>
        (is_valid <=> LastVisible(arg) = ";")

\* a query whose only semicolon is followed by white space was accepted
C8_Witness ==
    /\ Validated
    /\ count(arg, ";") = 1
    /\ ReachesStatementCount(arg)
    /\ ~endswith(arg, ";")
    /\ ret = <<TRUE, "">>

\* C9: every input with more than one semicolon is rejected, and with the
\* multiple-statements reason when no earlier check fails.
C9_SeveralSemicolonsRejected ==
    (Validated /\ count(arg, ";") > 1) =>
        /\ is_valid = FALSE
        /\ ReachesStatementCount(arg) => reason = MultipleReason

\* a query that ends in two semicolons was rejected as multiple statements
C9_Witness ==
    /\ Validated
    /\ count(arg, ";") = 2
    /\ endswith(strip(arg), ";;")
    /\ ret = <<FALSE, MultipleReason>>

\* the text holds UNION, white space, ALL, white space, SELECT, in any case
HasUnionAllSelect(s) ==
    LET u == Upper(s)
    IN  \E i \in 1..Len(u) :
            /\ SpellsAt(u, i, "UNION")
            /\ \E a \in (i + 6)..Len(u) :
                   /\ AllSpace(u, i + 5, a - 1)
                   /\ SpellsAt(u, a, "ALL")
                   /\ \E b \in (a + 4)..Len(u) :
                          /\ AllSpace(u, a + 3, b - 1)
                          /\ SpellsAt(u, b, "SELECT")

\* the text holds UNION, white space, SELECT, in any case
HasUnionSelect(s) ==
    LET u == Upper(s)
    IN  \E i \in 1..Len(u) :
            /\ SpellsAt(u, i, "UNION")
            /\ \E b \in (i + 6)..Len(u) :
                   /\ AllSpace(u, i + 5, b - 1)
                   /\ SpellsAt(u, b, "SELECT")

\* C10: a SELECT/WITH query that holds UNION ALL SELECT, in any case and with
\* any white space between the words, is rejected, and by the injection scan
\* when it reaches that scan; a query with a bare UNION SELECT that is clean
\* otherwise is accepted.
C10_UnionAllRejectedUnionAccepted ==
    Validated =>
        /\ (BeginsWithSelectOrWith(arg) /\ HasUnionAllSelect(arg)) =>
               /\ is_valid = FALSE
               /\ (ReachesWriteScan(arg) /\ WriteWords(strip(arg)) = {})
                      => reason = InjectionReason
        /\ (HasUnionSelect(arg) /\ ReachesStatementCount(arg)
                /\ AtMostOneTerminalSemicolon(arg)) => ret = <<TRUE, "">>

\* a query with union, a tab, All, a newline and select was rejected by the
\* injection scan
C10_Witness ==
    /\ Validated
    /\ BeginsWithSelectOrWith(arg)
    /\ Contains(arg, "union\tAll\n select")
    /\ ret = <<FALSE, InjectionReason>>

\* the input reaches the injection scan and one of its patterns matches
InjectionScanRejects(s) ==
    /\ ReachesWriteScan(s)
    /\ ~HasWriteKeyword(Upper(strip(s)))
    /\ HasInjection(s)

\* C11 as written: every rejection by the injection scan returns the pair
\* (false, "potential SQL injection pattern detected"), whichever pattern
\* matched, and so does the UNION ALL SELECT query on users and admin.
C11_InjectionReasonAsWritten ==
    (Validated /\ InjectionScanRejects(arg))
        => ret = <<FALSE, "potential SQL injection pattern detected">>

\* C11 amended: every rejection by the injection scan returns the pair
\* (False, "Potential SQL injection pattern detected"), with a capital P,
\* whichever pattern matched, and so does the UNION ALL SELECT query on users
\* and admin.
C11_InjectionReasonExact ==
    /\ (Validated /\ InjectionScanRejects(arg))
           => ret = <<FALSE, "Potential SQL injection pattern detected">>
    /\ (Validated /\ arg = UnionAllScenario /\ max_query_length = DefaultMaxQueryLength)
           => ret = <<FALSE, "Potential SQL injection pattern detected">>

\* the UNION ALL SELECT query on users and admin was rejected by the scan
C11_Witness ==
    /\ Validated
    /\ arg = UnionAllScenario
    /\ InjectionScanRejects(arg)
    /\ ret = <<FALSE, "Potential SQL injection pattern detected">>

\* the categories of the error taxonomy a reason falls in
ReasonCategories(r) ==
    { c \in {"empty-query", "length-exceeded", "wrong-leading-keyword",
             "write-operation-detected", "injection-pattern-detected",
             "multiple-statements", "misplaced-semicolon"} :
        CASE c = "empty-query" -> r = "Empty query"
          [] c = "length-exceeded" ->
                 r = "Query exceeds maximum length of "
                         \o ToString(max_query_length) \o " characters"
          [] c = "wrong-leading-keyword" -> r = "Query must start with SELECT or WITH"
          [] c = "write-operation-detected" ->
                 /\ startswith(r, "Write operation detected: ")
                 /\ Upper(SubSeq(r, Len("Write operation detected: ") + 1, Len(r)))
                        \in WriteSet
          [] c = "injection-pattern-detected" ->
                 r = "Potential SQL injection pattern detected"
          [] c = "multiple-statements" -> r = "Multiple SQL statements not allowed"
          [] c = "misplaced-semicolon" -> r = "Semicolon only allowed at end of query" }

\* C12: the reason validate returns is the empty string exactly when the
\* verdict is true, and the reason of every rejection falls in exactly one of
\* the seven categories of the error taxonomy.
C12_ReasonEmptyIffValid ==
    Validated =>
        /\ (reason = "") <=> (is_valid = TRUE)
        /\ is_valid = FALSE => Cardinality(ReasonCategories(reason)) = 1

\* a query was rejected with a reason of the write-operation category, naming
\* the keyword in the case the query spells it
C12_Witness ==
    /\ Validated
    /\ is_valid = FALSE
    /\ reason # ""
    /\ ReasonCategories(reason) = {"write-operation-detected"}
    /\ reason # Upper(reason)
    /\ Contains(reason, "drop")

\* C13: validate never throws, whatever string it is given and however long:
\* every call returns a pair of a boolean and a string, and it leaves the
\* validator as it was, with no error state for a later call.
C13_ValidateAlwaysReturnsPair ==
    [][ op' = "validate" =>
            /\ Len(ret') = 2
            /\ ret'[1] \in BOOLEAN
            /\ ret'[2] \in STRING
            /\ max_query_length' = max_query_length ]_vars

\* an input of more than four times the length limit that holds an injection
\* pattern came back as a pair, rejected for its length
C13_Witness ==
    /\ Validated
    /\ Len(arg) > 4 * max_query_length
    /\ Len(ret) = 2
    /\ ret = <<FALSE, LengthReason(max_query_length)>>
    /\ HasInjection(arg)

-----------------------------------------------------------------------------
(* Properties of a validator used call after call, stated on SpecSession *)

\* C15: a validate call on a string validated before returns the pair the
\* first call returned, whatever validate, sanitize_identifier and
\* is_safe_identifier calls came in between, and no call changes
\* max_query_length.
C15_ValidateTwiceSameResult ==
    [][ /\ max_query_length' = max_query_length
        /\ (op' = "validate" /\ arg' \in DOMAIN validated)
               => ret' = validated[arg'].first ]_vars

\* a string was validated again after an identifier helper ran and another
\* string had been rejected; the result is that of its first call
C15_Witness ==
    /\ op = "validate"
    /\ validated[arg].calls = 2
    /\ ret = validated[arg].first
    /\ ret[1] = TRUE
    /\ \E s \in DOMAIN validated : s # arg /\ validated[s].first[1] = FALSE

-----------------------------------------------------------------------------
(* Properties of validate on case variants, stated on SpecRecase *)

\* C14: two strings that differ only in the case of their ASCII letters get
\* the same verdict from validate.
C14_VerdictIgnoresCase ==
    op = "validate" =>
        \A s \in DOMAIN validated :
            Upper(s) = Upper(arg) => validated[s].first[1] = ret[1]

\* a query in mixed case was rejected by the write-keyword scan after the same
\* query in another case had been
C14_Witness ==
    /\ op = "validate"
    /\ arg \notin {Upper(arg), Lower(arg)}
    /\ IsWriteReason(ret[2])
    /\ \E s \in DOMAIN validated :
           /\ s # arg
           /\ Upper(s) = Upper(arg)
           /\ validated[s].first[1] = FALSE
           /\ ret[1] = FALSE

-----------------------------------------------------------------------------
(* Properties of concurrent validate calls, stated on SpecConcurrent *)

\* C16: when validate calls run at the same time on one validator, in any
\* interleaving of their statements, each call returns what validate returns
\* for its string when run alone, and a step of one call changes neither
\* another call's data nor the validator.
C16_ConcurrentCallsAgree ==
    [][ /\ max_query_length' = max_query_length
        /\ \E t \in Threads : \A u \in Threads \ {t} : threads'[u] = threads[u]
        /\ \A t \in Threads :
               threads'[t].pc = "done"
                   => threads'[t].ret = validate(threads'[t].sql)
      ]_vars

\* two calls on different strings were both past the strip at the same time,
\* and one has returned its own verdict while the other is still scanning
C16_Witness ==
    \E t \in Threads, u \in Threads :
        /\ threads[t].pc = "done"
        /\ threads[t].ret = <<TRUE, "">>
        /\ threads[u].pc = "injection"
        /\ threads[u].sql # threads[t].sql
        /\ HasInjection(threads[u].sql)

-----------------------------------------------------------------------------
(* Properties of the identifier helpers, stated on SpecIdentifier *)

AsciiLetters == CharSet(LowerLetters) \cup CharSet(UpperLetters)

\* the whole string is a letter or underscore followed by letters, digits and
\* underscores
WholeIdentifier(s) ==
    /\ Len(s) >= 1
    /\ At(s, 1) \in AsciiLetters \cup {"_"}
    /\ \A i \in 2..Len(s) : At(s, i) \in AsciiLetters \cup CharSet(Digits) \cup {"_"}

\* C17: is_safe_identifier returns true exactly for the strings that are, as a
\* whole, one ASCII letter or underscore followed by ASCII letters, digits and
\* underscores; the empty string and a string with any other character
\* anywhere, also at its end, give false.
C17_SafeIdentifierWholeString ==
    op = "is_safe_identifier" => (ret <=> WholeIdentifier(arg))

\* the positions of s that hold an ASCII letter, a digit or an underscore
KeptPositions(s) ==
    { i \in 1..Len(s) : At(s, i) \in AsciiLetters \cup CharSet(Digits) \cup {"_"} }

\* r is s restricted to the positions kept, in their order
IsSubsequenceAt(r, s, kept) ==
    /\ Len(r) = Cardinality(kept)
    /\ \A i \in kept :
           At(r, Cardinality({ j \in kept : j <= i })) = At(s, i)

\* C18: sanitize_identifier returns the ASCII letters, digits and underscores
\* of its input, in their order and with nothing put in place of the removed
\* characters; the result holds no other character; every string, the empty
\* one too, has a result.
C18_SanitizeKeepsSubsequence ==
    op = "sanitize_identifier" =>
        /\ ret \in STRING
        /\ IsSubsequenceAt(ret, arg, KeptPositions(arg))
        /\ KeptPositions(ret) = 1..Len(ret)

\* an identifier with characters to remove between characters to keep came
\* back shorter, with the kept characters next to each other
C18_Witness ==
    /\ op = "sanitize_identifier"
    /\ arg = "a-b c;d"
    /\ ret = "abcd"

\* C28: sanitize_identifier applied to its own result changes nothing, and a
\* string is_safe_identifier accepts comes out of sanitize_identifier as it
\* went in.
C28_SanitizeIdempotentFixesSafe ==
    /\ op = "sanitize_identifier" => sanitize_identifier(ret) = ret
    /\ (op = "is_safe_identifier" /\ ret) => sanitize_identifier(arg) = arg

-----------------------------------------------------------------------------
(* Properties of the LIMIT the executor adds, stated on the steps of Spec *)

ExecutorOps == {"execute_sql", "approve_sql"}

\* a LIMIT clause: the keyword LIMIT, white space, a number
HasLimitClause(sql) ==
    LET folded == Upper(sql)
    IN  \E i \in 1..Len(folded) :
            \E j \in MatchEnds(<<WordB, Lit("LIMIT"), WsPlus>>, 1, folded, i) :
                j <= Len(folded) /\ At(folded, j) \in CharSet(Digits)

\* sql with " LIMIT n" put before its terminal semicolon, or at its end
WithLimitAppended(sql, n) ==
    LET body == rstrip(sql)
    IN  IF body # "" /\ At(body, Len(body)) = ";"
        THEN SubSeq(body, 1, Len(body) - 1) \o " LIMIT " \o ToString(n) \o ";"
        ELSE sql \o " LIMIT " \o ToString(n)

\* C20: when execute_query sends a statement, it is the query with
\* LIMIT max_rows appended (before a terminal semicolon when there is one) if
\* the query has no LIMIT clause, and the query unchanged if it has one; the
\* statement sent always carries a LIMIT clause.
C20_SentStatementCarriesLimit ==
    [][ (op' \in ExecutorOps /\ Len(db_statements') = Len(db_statements) + 1) =>
            LET sent == db_statements'[Len(db_statements')]
            IN  /\ (~HasLimitClause(arg') => sent = WithLimitAppended(arg', max_rows))
                /\ (HasLimitClause(arg') => sent = arg')
                /\ HasLimitClause(sent) ]_vars

\* C21: with the default configuration every successful execute_sql or
\* approve_sql result holds at most DEFAULT_ROW_LIMIT rows, whatever the query
\* is and whether or not it carries a LIMIT of its own.
C21_SuccessfulResultWithinRowLimit ==
    (op \in ExecutorOps /\ ret.success) =>
        /\ Len(ret.data) <= DEFAULT_ROW_LIMIT
        /\ ret.row_count = Len(ret.data)

\* a query with a larger LIMIT of its own, answered with a full result
C21_Witness ==
    /\ op = "execute_sql"
    /\ arg = "with t SELECT x LIMIT 5"
    /\ ret.success
    /\ Len(ret.data) = DEFAULT_ROW_LIMIT

\* the statement the step sent to the database
LastSent == db_statements'[Len(db_statements')]

IsPrefix(s, t) == Len(s) <= Len(t) /\ SubSeq(t, 1, Len(s)) = s

\* C23: query_history records exactly the successful executions: an
\* execute_query that returns success appends one entry, which holds the
\* statement sent; one rejected by validation or failing in the database
\* leaves query_history as it was; no step removes or reorders entries.
C23_HistoryRecordsSuccesses ==
    [][ /\ IsPrefix(query_history, query_history')
        /\ op' \in ExecutorOps =>
               /\ ret'.success <=>
                      (validate(arg')[1] /\ Len(db_statements') > Len(db_statements)
                           /\ "error" \notin DOMAIN ret')
               /\ ret'.success =>
                      /\ Len(query_history') = Len(query_history) + 1
                      /\ query_history'[Len(query_history')].query = LastSent
                      /\ query_history'[Len(query_history')].row_count
                             = ret'.row_count
               /\ ~ret'.success => query_history' = query_history ]_vars

\* a statement that failed in the database after one that succeeded
C23_Witness ==
    /\ op \in ExecutorOps
    /\ ~ret.success
    /\ Len(db_statements) = 2
    /\ Len(query_history) = 1
    /\ query_history[1].query = "SELECT x LIMIT 3"

\* C24: execute_query returns a result whatever the database does with the
\* statement: when the statement was sent and did not succeed, the result has
\* success False, an error message and the statement attempted, and the
\* executor's fields are as before, so that later calls run as usual.
C24_DatabaseFailureReturned ==
    [][ op' \in ExecutorOps =>
            /\ "success" \in DOMAIN ret'
            /\ (Len(db_statements') > Len(db_statements) /\ ~ret'.success) =>
                   /\ ret'.error # ""
                   /\ ret'.query = LastSent
                   /\ UNCHANGED <<query_history, max_rows, max_query_length>> ]_vars

\* a successful execution right after a statement that failed in the database
C24_Witness ==
    /\ op \in ExecutorOps
    /\ ret.success
    /\ Len(db_statements) = 2
    /\ Len(query_history) = 1

\* C25: validate_query executes nothing and returns is_valid as the validator
\* gave it, with an "error" key exactly when the query is invalid.
C25_ValidateQueryOnlyValidates ==
    [][ op' = "validate_sql" =>
            /\ UNCHANGED <<db_statements, query_history>>
            /\ calls' = <<"validator.validate">>
            /\ ret'.is_valid = validate(arg')[1]
            /\ ret'.query = arg'
            /\ "error" \in DOMAIN ret' <=> ~ret'.is_valid
            /\ ~ret'.is_valid => ret'.error = validate(arg')[2] ]_vars

\* a valid query validated after two statements were executed
C25_Witness ==
    /\ op = "validate_sql"
    /\ ret.is_valid
    /\ Len(db_statements) = 2

-----------------------------------------------------------------------------
(* Properties of the discovery tools, stated on the steps of SpecDiscovery *)

DiscoveryOps == {"get_table_details", "get_column_values"}

\* a name that sanitize_identifier leaves as it is or is_safe_identifier accepts
PassesIdentifierHelpers(name) ==
    name = sanitize_identifier(name) \/ is_safe_identifier(name)

\* C19: the table and column names the agent supplies reach the database only
\* through the identifier helpers: a name that neither comes out of
\* sanitize_identifier unchanged nor passes is_safe_identifier appears in no
\* statement get_table_details or get_column_values sends.
C19_DiscoverySplicesCheckedNames ==
    [][ op' \in DiscoveryOps =>
            \A k \in (Len(db_statements) + 1)..Len(db_statements') :
                \A n \in 1..Len(arg') :
                    PassesIdentifierHelpers(arg'[n])
                        \/ ~Contains(db_statements'[k], arg'[n]) ]_vars

-----------------------------------------------------------------------------
(* Properties of the agent's fields, stated on the steps of SpecAgent *)

Succeeded(result) == "success" \in DOMAIN result /\ result.success

\* C26: last_query_results changes only when execute_sql or approve_sql
\* returns success, and then becomes that result's data; reset_conversation
\* sets it to None; a rejected or failed execution and every other tool call
\* leave it as it was.
C26_LastResultsFollowSuccess ==
    [][ IF op' \in ExecutorOps /\ Succeeded(ret')
        THEN last_query_results' = Some(ret'.data)
        ELSE IF op' = "reset_conversation"
             THEN last_query_results' = None
             ELSE last_query_results' = last_query_results ]_vars

\* an execution that did not succeed, with earlier results still held
C26_Witness ==
    /\ op \in ExecutorOps
    /\ ~ret.success
    /\ last_query_results = Some(<<Row(1), Row(2)>>)

-----------------------------------------------------------------------------
(* Properties of the data dictionary singleton, on the steps of SpecDictionary *)

Returned(result) == "id" \in DOMAIN result

\* C22: once _data_dictionary is set (every call that returns sets it to what
\* it returns), a call with force_refresh=False returns that object and
\* neither reads the cache file nor queries the database; a call with
\* force_refresh=True that returns has generated a new object from the
\* database without loading the cache file, and that object is now
\* _data_dictionary.
C22_ComputeOnceReuseForcedRefresh ==
    [][ op' = "get_data_dictionary" =>
            /\ Returned(ret') => data_dictionary' = Some(ret')
            /\ (~arg'.force_refresh /\ data_dictionary # None) =>
                   /\ ret' = data_dictionary[1]
                   /\ calls' = <<>>
                   /\ UNCHANGED dictVars
            /\ (arg'.force_refresh /\ Returned(ret')) =>
                   /\ ret' = Dictionary(created + 1, created + 1)
                   /\ \E k \in 1..Len(calls') : calls'[k] = "db.get_table_names"
                   /\ \A k \in 1..Len(calls') : calls'[k] # "DataDictionary.load" ]_vars

\* a forced refresh that returned its object while an older one was in memory
\* and its own save is what the cache file now holds
C22_Witness ==
    /\ op = "get_data_dictionary"
    /\ arg.force_refresh
    /\ Returned(ret)
    /\ ret.id > 1
    /\ cache_file = SavedFile(ret.generated_at)

-----------------------------------------------------------------------------
(* Properties of the chat loop, stated on the steps of SpecChat *)

ToolUses(message) == BlocksOfType(message.content, {"tool_use"})

\* the last message is an assistant message with tool_use blocks
AwaitsToolResults ==
    /\ messages # <<>>
    /\ messages[Len(messages)].role = "assistant"
    /\ ToolUses(messages[Len(messages)]) # <<>>

\* the tool_result blocks that answer the tool_use blocks of message
ResultsFor(message) ==
    [k \in 1..Len(ToolUses(message)) |-> ToolResult(ToolUses(message)[k].id)]

\* C27: after a response with tool_use blocks the model is not called again
\* before the tool calls are handled, and the next message appended is a user
\* message with one tool_result per tool_use block, same ids, same order; the
\* loop ends exactly when the response has no tool_use block or its
\* stop_reason is end_turn.
C27_ToolResultsAnswerToolUses ==
    [][ /\ (AwaitsToolResults /\ Len(messages') > Len(messages)) =>
               /\ op' # "messages.create"
               /\ messages' =
                      Append(messages,
                             [role |-> "user",
                              content |-> ResultsFor(messages[Len(messages)])])
        /\ (chat.pc # "idle" /\ chat'.pc = "idle") =>
               \/ op' = "messages.create" /\ ~AwaitsToolResults'
               \/ op' = "tool_results" /\ chat.stop_reason = "end_turn"
        /\ op' = "messages.create" =>
               (~AwaitsToolResults' => chat'.pc = "idle")
        /\ op' = "tool_results" =>
               (chat.stop_reason = "end_turn" <=> chat'.pc = "idle") ]_vars

-----------------------------------------------------------------------------
(* Properties of get_query_history, stated on the steps of SpecHistory *)

\* C29: get_query_history(limit) returns at most limit entries, the most
\* recent ones in the order they were recorded, for every limit >= 0 and
\* every history, and leaves query_history as it was.
C29_HistoryReturnsLastLimit ==
    [][ op' = "get_query_history" =>
            LET n == Len(query_history)
                k == IF arg' < n THEN arg' ELSE n
            IN  /\ Len(ret') <= arg'
                /\ ret' = SubSeq(query_history, n - k + 1, n)
                /\ query_history' = query_history ]_vars

-----------------------------------------------------------------------------
(* Properties of DatabaseConnection, stated on the steps of SpecConnection *)

\* C30: when execute_query has returned or raised, no connection it opened is
\* still open, also when the statement failed; the engine is created on first
\* use only, at most once, and every later call uses that engine.
C30_ConnectionsClosedEngineOnce ==
    [][ /\ db_call' = "idle" => connections' = {}
        /\ db_call' = "connected" => Cardinality(connections') = 1
        /\ engines_created' <= 1
        /\ engine # None => engine' = engine
        /\ engine' # engine => (engine = None /\ op' = "db.execute_query"
                                   /\ calls'[1] = "create_engine")
        /\ (op' = "db.execute_query" /\ engine # None) =>
               \A k \in 1..Len(calls') : calls'[k] # "create_engine" ]_vars

\* the second statement failed on the engine the first call created, and its
\* connection is closed
C30_Witness ==
    /\ op = "db.execute_query"
    /\ db_call = "idle"
    /\ Len(db_statements) = 2
    /\ ret # None
    /\ ret[1].raised
    /\ connections = {}
    /\ engine = Some(1)

=============================================================================
